---- MODULE Spec2Model ----
(***************************************************************************)
(* A model of pysuccinct: the reference BitVector (test/bitvector.py), the *)
(* BalancedParentheses encoding (succinct/encoding.py with the scanning    *)
(* primitives of test/encoding.py), the tree Navigator (succinct/tree.py)  *)
(* and the WaveletTree (test/wavelet.py) over the codecs of                *)
(* succinct/wavelet.py.                                                    *)
(*                                                                         *)
(* Python strings are sequences of one-character strings, indexed from 0   *)
(* by the operators below.  A call's outcome is a record                   *)
(*   [exc |-> "none", val |-> v]   the call returned v                     *)
(*   [exc |-> "None", val |-> 0]   the call returned Python's None         *)
(*   [exc |-> E,      val |-> 0]   the call raised exception E             *)
(***************************************************************************)
EXTENDS Integers, Sequences, FiniteSets, TLC

VARIABLES
    bits,       \* BitVector.bits: the bit string of the vector under test
    built,      \* BalancedParentheses over bits: "no", "new", "ok", "ValueError"
    text,       \* the text a WaveletTree was built from
    codec,      \* WaveletTree.codec
    root,       \* WaveletTree.root: the nodes, path |-> Node.bv.bits
    index,      \* the text index under test: an SA or a CSA of test/index.py
    doc,        \* the json Document: its source and, once loaded, its semi-index
    call        \* the last call made, with its arguments and its outcome

vars == <<bits, built, text, codec, root, index, doc, call>>

(***************************************************************************)
(* Bounds of the model.                                                    *)
(***************************************************************************)
MaxBits == 5        \* longest BitVector of the BitVector specification
MaxNodes == 4       \* BalancedParentheses is handed bit strings of up to 2 * MaxNodes bits
MaxText == 3        \* longest text of a WaveletTree
MaxTrain == 4       \* longest text a codec is built from
MaxCode == 3        \* longest bit string handed to decode, besides the ASCII codes
MaxIndexed == 4     \* longest text of a text index
MaxPattern == 2     \* longest pattern a text index is searched for
MaxSrc == 9         \* longest json text
MaxExtend == 2      \* most bits handed to one extend

(***************************************************************************)
(* Outcomes of calls.                                                      *)
(***************************************************************************)
Ok(v) == [exc |-> "none", val |-> v]
None == [exc |-> "None", val |-> 0]
Raise(e) == [exc |-> e, val |-> 0]
IsOk(r) == r.exc = "none"
IsNone(r) == r.exc = "None"
Raises(r) == r.exc \notin {"none", "None"}

Min2(a, b) == IF a <= b THEN a ELSE b
Max2(a, b) == IF a >= b THEN a ELSE b

\* all sequences over S of length at most n
SeqsUpTo(S, n) == UNION {[1..k -> S] : k \in 0..n}

(***************************************************************************)
(* Python string indexing and slicing.                                     *)
(***************************************************************************)
\* s[i] for a string s: negative indices count from the end
StrGetItem(s, i) ==
    LET j == IF i < 0 THEN i + Len(s) ELSE i
    IN  IF j < 0 \/ j >= Len(s) THEN Raise("IndexError") ELSE Ok(s[j + 1])

\* s[a:b] for 0 <= a: the slice is clipped to the string
StrSlice(s, a, b) == SubSeq(s, a + 1, Min2(b, Len(s)))

(***************************************************************************)
(* test/bitvector.py: the reference BitVector.                             *)
(***************************************************************************)
Bit == {"0", "1"}

\* BitVector._checkindex
BV_checkindex(bv, i) == ~(i < 0 \/ i >= Len(bv))

\* BitVector._checkcount
BV_checkcount(bv, k) == ~(k <= 0 \/ k > Len(bv))

\* BitVector._checkpattern
BV_checkpattern(p) == \A n \in 1..Len(p) : p[n] \in Bit

\* BitVector.append: self.bits += bit
BV_append(bv, bit) == bv \o <<bit>>

\* BitVector.extend: append called for every bit of bits, in order
RECURSIVE BV_extend(_, _)
BV_extend(bv, bs) ==
    IF bs = <<>> THEN bv
    ELSE BV_extend(BV_append(bv, Head(bs)), Tail(bs))

\* the sum(...) of BitVector.rank: the idx in range(i + 1) where p starts
BV_rankcount(bv, p, i) ==
    Cardinality({idx \in 0..i : StrSlice(bv, idx, idx + Len(p)) = p})

BV_rank_upto_i_minus_1(bv, p, i) ==
    IF ~BV_checkindex(bv, i) THEN Raise("IndexError")
    ELSE IF ~BV_checkpattern(p) THEN Raise("ValueError")
    ELSE Ok(BV_rankcount(bv, p, i - 1))

\* BitVector.rank
BV_rank(bv, p, i) ==
    IF ~BV_checkindex(bv, i) THEN Raise("IndexError")
    ELSE IF ~BV_checkpattern(p) THEN Raise("ValueError")
    ELSE Ok(BV_rankcount(bv, p, i))

\* the for loop of BitVector.select, from idx with cnt matches still to see
RECURSIVE BV_selectloop(_, _, _, _)
BV_selectloop(bv, p, idx, cnt) ==
    IF idx >= Len(bv) THEN Raise("ValueError")
    ELSE IF p = StrSlice(bv, idx, idx + Len(p))
         THEN IF cnt - 1 = 0 THEN Ok(idx)
              ELSE BV_selectloop(bv, p, idx + 1, cnt - 1)
         ELSE BV_selectloop(bv, p, idx + 1, cnt)

BV_select_checks_before_decrement(bv, p, k) ==
    IF ~BV_checkcount(bv, k) THEN Raise("ValueError")
    ELSE IF ~BV_checkpattern(p) THEN Raise("ValueError")
    ELSE BV_selectloop(bv, p, 0, k + 1)

\* BitVector.select
BV_select(bv, p, k) ==
    IF ~BV_checkcount(bv, k) THEN Raise("ValueError")
    ELSE IF ~BV_checkpattern(p) THEN Raise("ValueError")
    ELSE BV_selectloop(bv, p, 0, k)

(***************************************************************************)
(* succinct/encoding.py: BalancedParentheses over a BitVector, with the    *)
(* scanning primitives of test/encoding.py.  bv is self.bv.bits.           *)
(***************************************************************************)
\* tobits / toparens on one character
tobits1(c) == IF c = "(" THEN "1" ELSE IF c = ")" THEN "0" ELSE c
toparens1(c) == IF c = "1" THEN "(" ELSE IF c = "0" THEN ")" ELSE c

\* tobits
tobits(p) == [n \in 1..Len(p) |-> tobits1(p[n])]

\* toparens
toparens(b) == [n \in 1..Len(b) |-> toparens1(b[n])]

\* BalancedParentheses.__getitem__
BP_getitem(bv, i) ==
    LET r == StrGetItem(bv, i)
    IN  IF IsOk(r) THEN Ok(toparens1(r.val)) ELSE r

\* self[i] == c, for an i that is in range
BP_is(bv, i, c) == BP_getitem(bv, i) = Ok(c)

\* BalancedParentheses.rank
BP_rank(bv, p, i) == BV_rank(bv, tobits(p), i)

\* BalancedParentheses.select
BP_select(bv, p, k) == BV_select(bv, tobits(p), k)

\* BalancedParentheses.excess
BP_excess(bv, i) ==
    LET r == BP_rank(bv, <<"(">>, i)
    IN  IF IsOk(r) THEN Ok(2 * r.val - (i + 1)) ELSE r

\* excess(i) for an i that is in range
ex(bv, i) == BP_excess(bv, i).val

SetMin(S) == CHOOSE x \in S : \A y \in S : x <= y
SetMax(S) == CHOOSE x \in S : \A y \in S : x >= y

\* BalancedParentheses.fwdsearch (test/encoding.py): the first j in
\* range(i + 1, len) with excess(j) = tgt
BP_fwdsearch(bv, i, d) ==
    IF i # -1 /\ Raises(BP_excess(bv, i)) THEN BP_excess(bv, i)
    ELSE LET tgt == d + (IF i = -1 THEN 0 ELSE ex(bv, i))
             found == {j \in (i + 1)..(Len(bv) - 1) : ex(bv, j) = tgt}
         IN  IF found = {} THEN Raise("ValueError") ELSE Ok(SetMin(found))

\* BalancedParentheses.bwdsearch (test/encoding.py): the first j in
\* reversed(range(i)) with excess(j) = tgt, and -1 for a target of 0
BP_bwdsearch(bv, i, d) ==
    IF i # Len(bv) /\ Raises(BP_excess(bv, i)) THEN BP_excess(bv, i)
    ELSE LET tgt == d + (IF i = Len(bv) THEN 0 ELSE ex(bv, i))
             found == {j \in 0..(i - 1) : ex(bv, j) = tgt}
         IN  IF found # {} THEN Ok(SetMax(found))
             ELSE IF tgt = 0 THEN Ok(-1)
             ELSE Raise("ValueError")

\* BalancedParentheses._checkrange: the exception it raises, or "none"
BP_checkrange(bv, i, j) ==
    IF i < 0 \/ j < 0 \/ i >= Len(bv) \/ j >= Len(bv) THEN "IndexError"
    ELSE IF i > j THEN "ValueError"
    ELSE "none"

\* min(self.excess(x) for x in range(i, j + 1))
BP_minexcess(bv, i, j) == SetMin({ex(bv, x) : x \in i..j})

\* max(self.excess(x) for x in range(i, j + 1))
BP_maxexcess(bv, i, j) == SetMax({ex(bv, x) : x \in i..j})

\* BalancedParentheses.firstmin (test/encoding.py): argmin keeps the first
BP_firstmin(bv, i, j) ==
    IF BP_checkrange(bv, i, j) # "none" THEN Raise(BP_checkrange(bv, i, j))
    ELSE LET m == BP_minexcess(bv, i, j)
         IN  Ok(SetMin({x \in i..j : ex(bv, x) = m}))

\* BalancedParentheses.firstmax (test/encoding.py): argmax keeps the first
BP_firstmax(bv, i, j) ==
    IF BP_checkrange(bv, i, j) # "none" THEN Raise(BP_checkrange(bv, i, j))
    ELSE LET m == BP_maxexcess(bv, i, j)
         IN  Ok(SetMin({x \in i..j : ex(bv, x) = m}))

\* BalancedParentheses.countmin (test/encoding.py)
BP_countmin(bv, i, j) ==
    IF BP_checkrange(bv, i, j) # "none" THEN Raise(BP_checkrange(bv, i, j))
    ELSE LET m == BP_minexcess(bv, i, j)
         IN  Ok(Cardinality({x \in i..j : ex(bv, x) = m}))

\* the for loop of selectmin, from position x with cnt minima still to see
RECURSIVE BP_selectminloop(_, _, _, _, _)
BP_selectminloop(bv, m, x, j, cnt) ==
    IF x > j THEN Raise("ValueError")
    ELSE IF m = ex(bv, x)
         THEN IF cnt - 1 = 0 THEN Ok(x)
              ELSE BP_selectminloop(bv, m, x + 1, j, cnt - 1)
         ELSE BP_selectminloop(bv, m, x + 1, j, cnt)

\* BalancedParentheses.selectmin (test/encoding.py)
BP_selectmin(bv, i, j, k) ==
    IF BP_checkrange(bv, i, j) # "none" THEN Raise(BP_checkrange(bv, i, j))
    ELSE BP_selectminloop(bv, BP_minexcess(bv, i, j), i, j, k)

BP_open_without_plus_1(bv, i) ==
    LET c == BP_getitem(bv, i)
    IN  IF Raises(c) THEN c
        ELSE IF c.val # ")" THEN Raise("ValueError")
        ELSE BP_bwdsearch(bv, i, 0)

\* BalancedParentheses.open
BP_open(bv, i) ==
    LET c == BP_getitem(bv, i)
        r == BP_bwdsearch(bv, i, 0)
    IN  IF Raises(c) THEN c
        ELSE IF c.val # ")" THEN Raise("ValueError")
        ELSE IF IsOk(r) THEN Ok(r.val + 1) ELSE r

\* BalancedParentheses.close
BP_close(bv, i) ==
    LET c == BP_getitem(bv, i)
    IN  IF Raises(c) THEN c
        ELSE IF c.val # "(" THEN Raise("ValueError")
        ELSE BP_fwdsearch(bv, i, -1)

\* BalancedParentheses.enclose
BP_enclose(bv, i) ==
    IF i = 0 \/ i = Len(bv) - 1 THEN Raise("ValueError")
    ELSE LET c == BP_getitem(bv, i)
             o == IF IsOk(c) /\ c.val = ")" THEN BP_open(bv, i) ELSE Ok(i)
             r == BP_bwdsearch(bv, o.val, -2)
         IN  IF Raises(c) THEN c
             ELSE IF Raises(o) THEN o
             ELSE IF IsOk(r) THEN Ok(r.val + 1) ELSE r

Abs(x) == IF x < 0 THEN -x ELSE x

\* the inner for loop of _balanced: m in range(i + 1, close), from m
RECURSIVE BP_balancedinner(_, _, _, _)
BP_balancedinner(bv, i, close, m) ==
    IF m >= close THEN Ok(TRUE)
    ELSE IF ~BP_is(bv, m, "(") THEN BP_balancedinner(bv, i, close, m + 1)
    ELSE LET closed(c) ==
                 IF Raises(c) THEN c
                 ELSE IF ~(c.val < close) THEN Ok(FALSE)
                 ELSE IF ~(ex(bv, m) >= ex(bv, i)) THEN Ok(FALSE)
                 ELSE BP_balancedinner(bv, i, close, m + 1)
         IN  closed(BP_close(bv, m))

\* the outer for loop of _balanced: i in range(len(self)), from i, entered
\* with ok true
RECURSIVE BP_balancedouter(_, _)
BP_balancedouter(bv, i) ==
    IF i >= Len(bv) THEN Ok(TRUE)
    ELSE IF ~BP_is(bv, i, "(") THEN BP_balancedouter(bv, i + 1)
    ELSE LET nested(inner) ==
                 IF Raises(inner) THEN inner
                 ELSE IF ~inner.val THEN Ok(FALSE)
                 ELSE BP_balancedouter(bv, i + 1)
             closed(c) ==
                 IF Raises(c) THEN c
                 ELSE IF ~(c.val > i) THEN Ok(FALSE)
                 ELSE IF ~(ex(bv, c.val) = ex(bv, i) - 1) THEN Ok(FALSE)
                 ELSE nested(BP_balancedinner(bv, i, c.val, i + 1))
         IN  closed(BP_close(bv, i))

BP_balancedchecks_positive_excess(bv) ==
    /\ Len(bv) # 0 /\ Len(bv) % 2 = 0
    /\ BP_is(bv, 0, "(") /\ BP_is(bv, -1, ")")
    /\ \A i \in 0..(Len(bv) - 1) : ex(bv, i) > 0
    /\ ex(bv, Len(bv) - 1) = 0
    /\ \A i \in 1..(Len(bv) - 1) : Abs(ex(bv, i) - ex(bv, i - 1)) = 1

\* the five assignments to ok that precede the loops of _balanced
BP_balancedchecks(bv) ==
    /\ Len(bv) # 0 /\ Len(bv) % 2 = 0
    /\ BP_is(bv, 0, "(") /\ BP_is(bv, -1, ")")
    /\ \A i \in 0..(Len(bv) - 1) : ex(bv, i) >= 0
    /\ ex(bv, Len(bv) - 1) = 0
    /\ \A i \in 1..(Len(bv) - 1) : Abs(ex(bv, i) - ex(bv, i - 1)) = 1

\* BalancedParentheses._balanced
BP_balanced(bv) ==
    IF ~BP_balancedchecks(bv) THEN Ok(FALSE)
    ELSE BP_balancedouter(bv, 0)

\* BalancedParentheses.__init__: the exception it raises, or "ok"
BP_init(bv) ==
    LET init(b) == IF Raises(b) THEN b.exc
                   ELSE IF ~b.val THEN "ValueError"
                   ELSE "ok"
    IN  init(BP_balanced(bv))

(***************************************************************************)
(* succinct/tree.py: Navigator and Node over a BalancedParentheses.  A     *)
(* Node is its position pos; bv is nav.enc.bv.bits.                        *)
(***************************************************************************)
\* Navigator.__len__
Nav_len(bv) == Len(bv) \div 2

\* Navigator.node (and Node.__init__): the node at pos
Nav_node(bv, pos) ==
    LET c == BP_getitem(bv, pos)
    IN  IF Raises(c) THEN c
        ELSE IF c.val # "(" THEN Raise("ValueError")
        ELSE Ok(pos)

\* Navigator.node applied to the outcome of a position computation
Nav_nodeof(bv, r) == IF IsOk(r) THEN Nav_node(bv, r.val) ELSE r

\* Navigator.select
Nav_select(bv, k) == BP_select(bv, <<"(">>, k + 1)

\* Navigator.__getitem__ for an integer n
Nav_getitem(bv, n) ==
    LET m == IF n < 0 THEN n + Nav_len(bv) ELSE n
    IN  IF m < 0 \/ m >= Nav_len(bv) THEN Raise("IndexError")
        ELSE Nav_nodeof(bv, Nav_select(bv, m))

\* Navigator.rank
Nav_rank(bv, pos) ==
    LET r == BP_rank(bv, <<"(">>, pos)
    IN  IF IsOk(r) THEN Ok(r.val - 1) ELSE r

\* Node.isleaf
Node_isleaf(bv, pos) == BP_is(bv, pos + 1, ")")

\* Node.isancestor: self at pos, n at npos; pos holds '(' in a balanced
\* encoding, so close(pos) returns
Node_isancestor(bv, pos, npos) ==
    pos <= npos /\ npos < BP_close(bv, pos).val

\* Node.depth
Node_depth(bv, pos) == BP_excess(bv, pos)

\* Node.parent
Node_parent(bv, pos) ==
    IF pos = 0 THEN None
    ELSE Nav_nodeof(bv, BP_enclose(bv, pos))

\* Node.degree
Node_degree(bv, pos) ==
    IF Node_isleaf(bv, pos) THEN Ok(0)
    ELSE LET closed(c) == IF Raises(c) THEN c
                          ELSE BP_countmin(bv, pos + 1, c.val - 1)
         IN  closed(BP_close(bv, pos))

Node_child_selects_k_plus_1(bv, pos, k) ==
    LET d == Node_degree(bv, pos)
        c == BP_close(bv, pos)
        m == BP_selectmin(bv, pos + 1, c.val - 1, k + 1)
    IN  IF k < 0 THEN Raise("IndexError")
        ELSE IF Raises(d) THEN d
        ELSE IF k >= d.val THEN Raise("IndexError")
        ELSE IF k = 0 THEN Nav_node(bv, pos + 1)
        ELSE IF Raises(c) THEN c
        ELSE IF Raises(m) THEN m
        ELSE Nav_node(bv, 1 + m.val)

\* Node.child
Node_child(bv, pos, k) ==
    LET selected(m) == IF Raises(m) THEN m ELSE Nav_node(bv, 1 + m.val)
        closed(c) ==
            IF Raises(c) THEN c
            ELSE selected(BP_selectmin(bv, pos + 1, c.val - 1, k))
        child(d) ==
            IF Raises(d) THEN d
            ELSE IF k >= d.val THEN Raise("IndexError")
            ELSE IF k = 0 THEN Nav_node(bv, pos + 1)
            ELSE closed(BP_close(bv, pos))
    IN  IF k < 0 THEN Raise("IndexError")
        ELSE child(Node_degree(bv, pos))

\* Node.lca: self at pos, n at npos
Node_lca(bv, pos, npos) ==
    IF Node_isancestor(bv, pos, npos) THEN Ok(pos)
    ELSE IF Node_isancestor(bv, npos, pos) THEN Ok(npos)
    ELSE LET f == BP_firstmin(bv, Min2(pos, npos), Max2(pos, npos))
             n == IF Raises(f) THEN f ELSE Nav_node(bv, 1 + f.val)
         IN  IF Raises(n) THEN n ELSE Node_parent(bv, n.val)

\* Navigator.root
Nav_root(bv) == Nav_node(bv, 0)

\* Node.deepestnode
Node_deepestnode(bv, pos) ==
    IF Node_isleaf(bv, pos) THEN None
    ELSE LET maxof(c) == IF Raises(c) THEN c
                         ELSE Nav_nodeof(bv, BP_firstmax(bv, pos, c.val))
         IN  maxof(BP_close(bv, pos))

\* Node.height
Node_height(bv, pos) ==
    IF Node_isleaf(bv, pos) THEN Ok(0)
    ELSE LET below(n) == IF Raises(n) THEN n
                         ELSE Ok(ex(bv, n.val) - ex(bv, pos))
         IN  below(Node_deepestnode(bv, pos))

\* Node.ancestor
Node_ancestor(bv, pos, d) ==
    LET found(r) == IF IsOk(r) THEN Nav_node(bv, r.val + 1) ELSE r
    IN  IF d < 0 \/ d >= Node_depth(bv, pos).val THEN None
        ELSE found(BP_bwdsearch(bv, pos, (0 - d) - 1))

\* the guard of levelleftmost and levelrightmost: d < 1 or
\* d > self.root().height() + 1
Nav_beyondlevels(bv, d) ==
    LET beyond(h) == IF Raises(h) THEN h ELSE Ok(d > h.val + 1)
        rooted(r) == IF Raises(r) THEN r ELSE beyond(Node_height(bv, r.val))
    IN  IF d < 1 THEN Ok(TRUE) ELSE rooted(Nav_root(bv))

\* Navigator.levelleftmost
Nav_levelleftmost(bv, d) ==
    LET level(g) == IF Raises(g) THEN g
                    ELSE IF g.val THEN None
                    ELSE Nav_nodeof(bv, BP_fwdsearch(bv, -1, d))
    IN  level(Nav_beyondlevels(bv, d))

\* Navigator.levelrightmost
Nav_levelrightmost(bv, d) ==
    LET opened(r) == IF Raises(r) THEN r ELSE Nav_nodeof(bv, BP_open(bv, r.val))
        level(g) == IF Raises(g) THEN g
                    ELSE IF g.val THEN None
                    ELSE opened(BP_bwdsearch(bv, Len(bv), d - 1))
    IN  level(Nav_beyondlevels(bv, d))

\* sum(n.degree() for n in nav), over the nodes nav[n], ..., nav[len - 1]
RECURSIVE Nav_sumdegrees(_, _)
Nav_sumdegrees(bv, n) ==
    IF n >= Nav_len(bv) THEN 0
    ELSE Node_degree(bv, Nav_getitem(bv, n).val).val + Nav_sumdegrees(bv, n + 1)

(***************************************************************************)
(* Python built-ins the codecs use.  A Python value that may be a str or   *)
(* an int carries its type.                                                *)
(***************************************************************************)
PyStr(s) == [type |-> "str", v |-> s]
PyInt(n) == [type |-> "int", v |-> n]

\* the characters of the model, and ord() of each
Symbols == {" ", "a", "b", "~"}
Py_ord(c) ==
    CASE c = " " -> 32
      [] c = "a" -> 97
      [] c = "b" -> 98
      [] c = "~" -> 126

\* chr(n); "?" stands for every character outside Symbols
Py_chr(n) ==
    IF n < 0 \/ n >= 256 THEN Raise("ValueError")
    ELSE IF \E c \in Symbols : Py_ord(c) = n
         THEN Ok(CHOOSE c \in Symbols : Py_ord(c) = n)
         ELSE Ok("?")

\* bin(n)[2:] for n >= 0: the binary digits of n, most significant first
RECURSIVE Py_bin(_)
Py_bin(n) ==
    IF n < 2 THEN <<IF n = 1 THEN "1" ELSE "0">>
    ELSE Py_bin(n \div 2) \o <<IF n % 2 = 1 THEN "1" ELSE "0">>

\* s.zfill(w)
RECURSIVE Py_zfill(_, _)
Py_zfill(s, w) == IF Len(s) >= w THEN s ELSE Py_zfill(<<"0">> \o s, w)

\* the value of a string of binary digits
RECURSIVE Py_binvalue(_)
Py_binvalue(s) ==
    IF s = <<>> THEN 0
    ELSE 2 * Py_binvalue(SubSeq(s, 1, Len(s) - 1))
         + (IF s[Len(s)] = "1" THEN 1 ELSE 0)

\* str.isspace() of one character
Py_isspace(c) == c \in {" ", "\t", "\n", "\r", "\f"}

\* str.strip()
RECURSIVE Py_lstrip(_)
Py_lstrip(s) ==
    IF Len(s) > 0 /\ Py_isspace(s[1]) THEN Py_lstrip(Tail(s)) ELSE s

RECURSIVE Py_rstrip(_)
Py_rstrip(s) ==
    IF Len(s) > 0 /\ Py_isspace(s[Len(s)])
    THEN Py_rstrip(SubSeq(s, 1, Len(s) - 1))
    ELSE s

Py_strip(s) == Py_rstrip(Py_lstrip(s))

\* int(x, 2): only a str can be converted with an explicit base; white
\* space around the literal and after its sign is dropped, and the binary
\* digits may follow the prefix 0b or 0B
Py_int2(x) ==
    LET stripped == Py_strip(x.v)
        signed == Len(stripped) > 0 /\ stripped[1] \in {"+", "-"}
        unsigned == IF signed THEN Py_lstrip(Tail(stripped)) ELSE stripped
        prefixed == /\ Len(unsigned) >= 2
                    /\ unsigned[1] = "0"
                    /\ unsigned[2] \in {"b", "B"}
        digits == IF prefixed THEN SubSeq(unsigned, 3, Len(unsigned))
                  ELSE unsigned
    IN  IF x.type # "str" THEN Raise("TypeError")
        ELSE IF digits = <<>> \/ \E n \in 1..Len(digits) : digits[n] \notin Bit
        THEN Raise("ValueError")
        ELSE IF signed /\ stripped[1] = "-" THEN Ok(0 - Py_binvalue(digits))
        ELSE Ok(Py_binvalue(digits))

(***************************************************************************)
(* succinct/wavelet.py: the codecs.                                        *)
(***************************************************************************)
ASCIIWidth == 7

\* ASCIICodec.encode
ASCIICodec_encode(sym) == Ok(Py_zfill(Py_bin(Py_ord(sym)), ASCIIWidth))

\* ASCIICodec.decode
ASCIICodec_decode(code) ==
    LET n == Py_int2(code)
    IN  IF Raises(n) THEN n ELSE Py_chr(n.val)

(***************************************************************************)
(* The codecs built from a text keep two dicts, syms (code -> symbol) and  *)
(* codes (symbol -> code); a codec is the record of its class and dicts.   *)
(* A tree node of a constructor is a record with the fields of its Node    *)
(* class; sym = "" is Python's None, and only nodes without a symbol have  *)
(* left and right.                                                         *)
(***************************************************************************)
NoCodec == [kind |-> "none"]
ASCIICodec == [kind |-> "ASCIICodec"]
TableCodec(kind, codes) ==
    [kind |-> kind,
     codes |-> codes,
     syms |-> [code \in {codes[s] : s \in DOMAIN codes}
                  |-> CHOOSE s \in DOMAIN codes : codes[s] = code]]

\* a constructor that raised exc
FailedCodec(exc) == [kind |-> exc]

\* the number of times sym occurs in txt: the cnt of its leaf
SymCount(txt, sym) == Cardinality({n \in 1..Len(txt) : txt[n] = sym})

\* the distinct symbols of txt in the order they first occur
RECURSIVE FirstOccurrences(_)
FirstOccurrences(txt) ==
    IF txt = <<>> THEN <<>>
    ELSE LET before == FirstOccurrences(SubSeq(txt, 1, Len(txt) - 1))
             sym == txt[Len(txt)]
         IN  IF \E n \in 1..Len(before) : before[n] = sym THEN before
             ELSE Append(before, sym)

\* sorted(S) for a set S of characters
RECURSIVE Py_sorted(_)
Py_sorted(S) ==
    IF S = {} THEN <<>>
    ELSE LET least == CHOOSE c \in S : \A d \in S : Py_ord(c) <= Py_ord(d)
         IN  <<least>> \o Py_sorted(S \ {least})

LeafNode(sym, cnt) == [cnt |-> cnt, sym |-> sym]
\* the list of the leaves of the symbols syms of txt, each with its count
RECURSIVE LeafNodes(_, _)
LeafNodes(txt, syms) ==
    IF syms = <<>> THEN <<>>
    ELSE <<LeafNode(Head(syms), SymCount(txt, Head(syms)))>>
             \o LeafNodes(txt, Tail(syms))

InnerNode(left, right) ==
    [cnt |-> left.cnt + right.cnt, sym |-> "", left |-> left, right |-> right]

\* the stack walks that generate the codes: the dict codes below node
RECURSIVE Node_codes(_, _)
Node_codes(node, code) ==
    IF node.sym # "" THEN (node.sym :> code)
    ELSE Node_codes(node.left, Append(code, "0"))
             @@ Node_codes(node.right, Append(code, "1"))

\* HuffmanCodec.__init__.Node.__lt__
HuffmanNode_lt(self, other) == self.cnt < other.cnt

\* heapq._siftdown, on a list indexed from 0
RECURSIVE heapq_siftdownloop(_, _, _, _)
heapq_siftdownloop(heap, startpos, pos, newitem) ==
    IF pos > startpos
    THEN LET parentpos == (pos - 1) \div 2
             parent == heap[parentpos + 1]
         IN  IF HuffmanNode_lt(newitem, parent)
             THEN heapq_siftdownloop([heap EXCEPT ![pos + 1] = parent],
                                     startpos, parentpos, newitem)
             ELSE [heap EXCEPT ![pos + 1] = newitem]
    ELSE [heap EXCEPT ![pos + 1] = newitem]

heapq_siftdown(heap, startpos, pos) ==
    heapq_siftdownloop(heap, startpos, pos, heap[pos + 1])

\* heapq._siftup, on a list indexed from 0
RECURSIVE heapq_siftuploop(_, _, _, _, _)
heapq_siftuploop(heap, startpos, pos, childpos, newitem) ==
    IF childpos < Len(heap)
    THEN LET rightpos == childpos + 1
             smaller ==
                 IF /\ rightpos < Len(heap)
                    /\ ~HuffmanNode_lt(heap[childpos + 1], heap[rightpos + 1])
                 THEN rightpos ELSE childpos
         IN  heapq_siftuploop([heap EXCEPT ![pos + 1] = heap[smaller + 1]],
                              startpos, smaller, 2 * smaller + 1, newitem)
    ELSE heapq_siftdown([heap EXCEPT ![pos + 1] = newitem], startpos, pos)

heapq_siftup(heap, pos) ==
    heapq_siftuploop(heap, pos, pos, 2 * pos + 1, heap[pos + 1])

\* heapq.heapify: _siftup at i, i - 1, ..., 0
RECURSIVE heapq_heapifyloop(_, _)
heapq_heapifyloop(heap, i) ==
    IF i < 0 THEN heap
    ELSE heapq_heapifyloop(heapq_siftup(heap, i), i - 1)

heapq_heapify(heap) == heapq_heapifyloop(heap, (Len(heap) \div 2) - 1)

\* heapq.heappop on a non-empty heap: the item popped and the heap left
heapq_heappop(heap) ==
    LET lastelt == heap[Len(heap)]
        rest == SubSeq(heap, 1, Len(heap) - 1)
    IN  IF rest = <<>> THEN [item |-> lastelt, heap |-> rest]
        ELSE [item |-> rest[1],
              heap |-> heapq_siftup([rest EXCEPT ![1] = lastelt], 0)]

\* heapq.heappush
heapq_heappush(heap, item) ==
    heapq_siftdown(Append(heap, item), 0, Len(heap))

\* HuffmanCodec.__init__: the while loop that merges the two least nodes
RECURSIVE Huffman_merge(_)
Huffman_merge(heap) ==
    IF Len(heap) <= 1 THEN heap
    ELSE LET first == heapq_heappop(heap)
             second == heapq_heappop(first.heap)
             node == InnerNode(first.item, second.item)
         IN  Huffman_merge(heapq_heappush(second.heap, node))

\* HuffmanCodec.__init__
HuffmanCodec_init(txt) ==
    IF txt = <<>> THEN TableCodec("HuffmanCodec", <<>>)
    ELSE LET firsts == FirstOccurrences(txt)
             leafnodes == LeafNodes(txt, firsts)
             merged == Huffman_merge(heapq_heapify(leafnodes))
         IN  TableCodec("HuffmanCodec", Node_codes(merged[1], <<>>))

\* HuTuckerCodec.__init__: the index of the node to merge with the one
\* before it, the first idx with nodes[idx - 1].cnt <= nodes[idx + 1].cnt
HuTucker_target(nodes) ==
    LET found == {idx \in 1..(Len(nodes) - 2) :
                     nodes[idx].cnt <= nodes[idx + 2].cnt}
    IN  IF found = {} THEN Len(nodes) - 1 ELSE SetMin(found)

\* where the merged node goes: after the nearest node before tgt - 1 whose
\* cnt is at least its own, and first when there is none
HuTucker_insertion(nodes, tgt, cnt) ==
    LET found == {ins \in 1..(tgt - 1) : nodes[ins].cnt >= cnt}
    IN  IF found = {} THEN 0 ELSE SetMax(found)

\* the while loop of the garsia-wachs merges
RECURSIVE HuTucker_merge(_)
HuTucker_merge(nodes) ==
    IF Len(nodes) <= 1 THEN nodes
    ELSE LET tgt == HuTucker_target(nodes)
             node == InnerNode(nodes[tgt], nodes[tgt + 1])
             ins == HuTucker_insertion(nodes, tgt, node.cnt)
         IN  HuTucker_merge(SubSeq(nodes, 1, ins) \o <<node>>
                                \o SubSeq(nodes, ins + 1, tgt - 1)
                                \o SubSeq(nodes, tgt + 2, Len(nodes)))

\* the depths of the leaves below node
RECURSIVE HuTucker_depths(_, _)
HuTucker_depths(node, depth) ==
    IF node.sym # "" THEN (node.sym :> depth)
    ELSE HuTucker_depths(node.left, depth + 1)
             @@ HuTucker_depths(node.right, depth + 1)

\* the while True loop that places a symbol at its depth: paths is the
\* stack of the nodes still free, each the code of its path from the root,
\* with the top of the stack last
RECURSIVE HuTucker_place(_, _)
HuTucker_place(paths, depth) ==
    IF paths = <<>> THEN [exc |-> "IndexError"]
    ELSE LET node == paths[Len(paths)]
             rest == SubSeq(paths, 1, Len(paths) - 1)
         IN  IF depth = Len(node)
             THEN [exc |-> "none", code |-> node, paths |-> rest, lost |-> FALSE]
             ELSE IF depth > Len(node)
             THEN HuTucker_place(rest \o <<Append(node, "1"), Append(node, "0")>>,
                                 depth)
             ELSE LET r == HuTucker_place(rest, depth)
                  IN  IF r.exc # "none" THEN r ELSE [r EXCEPT !.lost = TRUE]

\* the for loop over the alphabet: the codes of the new tree, or the
\* exception raised; a node popped without a symbol or left on the stack is
\* a leaf without a symbol, on which the walk that generates the codes
\* raises AttributeError
RECURSIVE HuTucker_rebuild(_, _, _, _, _)
HuTucker_rebuild(alphabet, depths, paths, codes, lost) ==
    IF alphabet = <<>>
    THEN IF paths = <<>> /\ ~lost THEN [exc |-> "none", codes |-> codes]
         ELSE [exc |-> "AttributeError"]
    ELSE LET sym == Head(alphabet)
             r == HuTucker_place(paths, depths[sym])
         IN  IF r.exc # "none" THEN [exc |-> r.exc]
             ELSE HuTucker_rebuild(Tail(alphabet), depths, r.paths,
                                   codes @@ (sym :> r.code), lost \/ r.lost)

\* alphabet = sorted(leaves)
HuTucker_alphabet_unsorted(txt) == FirstOccurrences(txt)

HuTucker_alphabet(txt) == Py_sorted({txt[n] : n \in 1..Len(txt)})

\* HuTuckerCodec.__init__
HuTuckerCodec_init(txt) ==
    IF txt = <<>> THEN TableCodec("HuTuckerCodec", <<>>)
    ELSE LET sorted == HuTucker_alphabet(txt)
             leafnodes == LeafNodes(txt, sorted)
             merged == HuTucker_merge(leafnodes)
             leafdepths == HuTucker_depths(merged[1], 0)
             rebuilt == HuTucker_rebuild(sorted, leafdepths, <<<<>>>>, <<>>, FALSE)
         IN  IF rebuilt.exc # "none" THEN FailedCodec(rebuilt.exc)
             ELSE TableCodec("HuTuckerCodec", rebuilt.codes)

\* HuffmanCodec.encode and HuTuckerCodec.encode
TableCodec_encode(cdc, sym) ==
    IF sym \notin DOMAIN cdc.codes THEN Raise("ValueError")
    ELSE Ok(cdc.codes[sym])

\* HuffmanCodec.decode and HuTuckerCodec.decode: an int is a key of no dict
\* of strings
TableCodec_decode(cdc, code) ==
    IF code.type # "str" \/ code.v \notin DOMAIN cdc.syms
    THEN Raise("ValueError")
    ELSE Ok(cdc.syms[code.v])

\* self.codec.encode(sym)
Codec_encode(cdc, sym) ==
    IF cdc.kind = "ASCIICodec" THEN ASCIICodec_encode(sym)
    ELSE TableCodec_encode(cdc, sym)

\* self.codec.decode(code)
Codec_decode(cdc, code) ==
    IF cdc.kind = "ASCIICodec" THEN ASCIICodec_decode(code)
    ELSE TableCodec_decode(cdc, code)

(***************************************************************************)
(* test/wavelet.py: the reference WaveletTree.  The tree is a function     *)
(* from the path of a Node (the bits from the root) to its bv.bits; the    *)
(* child of the node at path under bit is the node at path \o <<bit>>,     *)
(* and it is None when that path is no node.                               *)
(***************************************************************************)
WT_emptytree == (<<>> :> <<>>)

\* the inner for loop of __init__: the bits of code, from the node at path
RECURSIVE WT_insert(_, _, _)
WT_insert(tree, path, code) ==
    IF code = <<>> THEN tree
    ELSE LET bit == Head(code)
             appended == [tree EXCEPT ![path] = BV_append(@, bit)]
             child == Append(path, bit)
             withchild == IF child \in DOMAIN appended THEN appended
                          ELSE appended @@ (child :> <<>>)
         IN  WT_insert(withchild, child, Tail(code))

\* WaveletTree.__init__: the outer for loop, over the symbols of txt
RECURSIVE WT_init(_, _, _)
WT_init(tree, cdc, txt) ==
    IF txt = <<>> THEN tree
    ELSE WT_init(WT_insert(tree, <<>>, Codec_encode(cdc, Head(txt)).val),
                 cdc, Tail(txt))

\* WaveletTree.__len__
WT_len(tree) == Len(tree[<<>>])

\* the while loop of __getitem__: the code read from the node at path down
RECURSIVE WT_getitemloop(_, _, _, _)
WT_getitemloop(tree, path, idx, code) ==
    IF path \notin DOMAIN tree THEN Raise("AttributeError")
    ELSE IF tree[path] = <<>> THEN Ok(code)
    ELSE LET bit == StrGetItem(tree[path], idx)
             r == BV_rank(tree[path], <<bit.val>>, idx)
         IN  IF Raises(bit) THEN bit
             ELSE IF Raises(r) THEN r
             ELSE WT_getitemloop(tree, Append(path, bit.val), r.val - 1,
                                 Append(code, bit.val))

\* WaveletTree.__getitem__ for an integer idx
WT_getitem(tree, cdc, idx) ==
    LET i == IF idx < 0 THEN idx + WT_len(tree) ELSE idx
        code == WT_getitemloop(tree, <<>>, i, <<>>)
        n == Py_int2(PyStr(code.val))
    IN  IF i < 0 \/ i >= WT_len(tree) THEN Raise("IndexError")
        ELSE IF Raises(code) THEN code
        ELSE IF Raises(n) THEN n
        ELSE Codec_decode(cdc, PyInt(n.val))

RECURSIVE WT_rankloop_keeps_idx(_, _, _, _, _)
WT_rankloop_keeps_idx(tree, path, idx, code, cnt) ==
    IF path \notin DOMAIN tree THEN Raise("AttributeError")
    ELSE IF tree[path] = <<>> THEN cnt
    ELSE IF code = <<>> THEN Raise("StopIteration")
    ELSE LET bit == Head(code)
             r == BV_rank(tree[path], <<bit>>, idx)
         IN  IF Raises(r) THEN r
             ELSE IF r.val = 0 THEN r
             ELSE WT_rankloop_keeps_idx(tree, Append(path, bit), idx,
                                        Tail(code), r)

\* the while loop of rank: cnt is the last count, or unbound
RECURSIVE WT_rankloop(_, _, _, _, _)
WT_rankloop(tree, path, idx, code, cnt) ==
    IF path \notin DOMAIN tree THEN Raise("AttributeError")
    ELSE IF tree[path] = <<>> THEN cnt
    ELSE IF code = <<>> THEN Raise("StopIteration")
    ELSE LET bit == Head(code)
             r == BV_rank(tree[path], <<bit>>, idx)
         IN  IF Raises(r) THEN r
             ELSE IF r.val = 0 THEN r
             ELSE WT_rankloop(tree, Append(path, bit), r.val - 1,
                              Tail(code), r)

\* WaveletTree.rank
WT_rank(tree, cdc, c, i) ==
    LET code == Codec_encode(cdc, c)
    IN  IF i < 0 \/ i >= WT_len(tree) THEN Raise("IndexError")
        ELSE IF Raises(code) THEN code
        ELSE WT_rankloop(tree, <<>>, i, code.val,
                         Raise("UnboundLocalError"))

RECURSIVE WT_selectloop_keeps_cnt(_, _, _, _)
WT_selectloop_keeps_cnt(tree, path, cnt, idx) ==
    IF path = <<>> THEN idx
    ELSE LET parent == SubSeq(path, 1, Len(path) - 1)
             r == BV_select(tree[parent], <<path[Len(path)]>>, cnt)
         IN  IF Raises(r) THEN Raise("ValueError")
             ELSE WT_selectloop_keeps_cnt(tree, parent, cnt, r)

\* the second for loop of select: bit in reversed(code), from the node at
\* path up; idx is the last index, or unbound
RECURSIVE WT_selectloop(_, _, _, _)
WT_selectloop(tree, path, cnt, idx) ==
    IF path = <<>> THEN idx
    ELSE LET parent == SubSeq(path, 1, Len(path) - 1)
             r == BV_select(tree[parent], <<path[Len(path)]>>, cnt)
         IN  IF Raises(r) THEN Raise("ValueError")
             ELSE WT_selectloop(tree, parent, r.val + 1, r)

\* WaveletTree.select
WT_select(tree, cdc, c, k) ==
    LET code == Codec_encode(cdc, c)
    IN  IF k <= 0 \/ k > WT_len(tree) THEN Raise("ValueError")
        ELSE IF Raises(code) THEN code
        ELSE IF \E n \in 1..Len(code.val) :
                    SubSeq(code.val, 1, n) \notin DOMAIN tree
             THEN Raise("ValueError")
        ELSE WT_selectloop(tree, code.val, k, Raise("UnboundLocalError"))

(***************************************************************************)
(* test/index.py: the suffix array SA and the compressed suffix array CSA. *)
(* An index is the record of its class and its fields; lists and tuples    *)
(* are sequences, indexed from 0 by the operators below.                   *)
(***************************************************************************)
NoIndex == [kind |-> "none"]

\* a < b for two Python strings
Py_strlt(a, b) ==
    \/ Len(a) < Len(b) /\ SubSeq(b, 1, Len(a)) = a
    \/ \E k \in 1..Min2(Len(a), Len(b)) :
           /\ SubSeq(a, 1, k - 1) = SubSeq(b, 1, k - 1)
           /\ Py_ord(a[k]) < Py_ord(b[k])

\* s[a:] and s[:b] for a Python sequence: a negative bound counts from the
\* end, and the slice is clipped to the sequence
Py_bound(s, a) == IF a < 0 THEN Max2(a + Len(s), 0) ELSE Min2(a, Len(s))
Py_slicefrom(s, a) == SubSeq(s, Py_bound(s, a) + 1, Len(s))
Py_sliceto(s, b) == SubSeq(s, 1, Py_bound(s, b))

\* sorted(suffixes): the offsets in S in the order of their suffixes;
\* suffixes of different offsets differ, so the offsets never decide
RECURSIVE SortedSuffixes(_, _)
SortedSuffixes(txt, S) ==
    IF S = {} THEN <<>>
    ELSE LET least == CHOOSE i \in S : \A j \in S \ {i} :
                          Py_strlt(StrSlice(txt, i, Len(txt)),
                                   StrSlice(txt, j, Len(txt)))
         IN  <<least>> \o SortedSuffixes(txt, S \ {least})

\* SA.build
SA_build(txt) ==
    [kind |-> "SA", text |-> txt,
     array |-> SortedSuffixes(txt, 0..(Len(txt) - 1))]

\* SA.__len__
SA_len(sa) == Len(sa.text)

\* SA._search: the first while loop
RECURSIVE SA_searchfirst(_, _, _, _)
SA_searchfirst(sa, value, sp, st) ==
    IF sp < st
    THEN LET idx == (sp + st) \div 2
             off == sa.array[idx + 1]
         IN  IF Py_strlt(StrSlice(sa.text, off, off + Len(value)), value)
             THEN SA_searchfirst(sa, value, idx + 1, st)
             ELSE SA_searchfirst(sa, value, sp, idx)
    ELSE sp

\* SA._search: the second while loop
RECURSIVE SA_searchlast(_, _, _, _)
SA_searchlast(sa, value, ep, et) ==
    IF ep < et
    THEN LET idx == ((ep + et) \div 2) + ((ep + et) % 2)
             off == sa.array[idx + 1]
         IN  IF value = StrSlice(sa.text, off, off + Len(value))
             THEN SA_searchlast(sa, value, idx, et)
             ELSE SA_searchlast(sa, value, ep, idx - 1)
    ELSE ep

\* SA._search: the pair start, end
SA_search(sa, value) ==
    IF value = <<>> THEN <<0, SA_len(sa) + 1>>
    ELSE LET sp == SA_searchfirst(sa, value, 0, SA_len(sa) - 1)
         IN  <<sp, SA_searchlast(sa, value, sp - 1, SA_len(sa) - 1)>>

SA_count_end_minus_start(sa, value) ==
    LET found == SA_search(sa, value)
    IN  Ok(found[2] - found[1])

\* SA.count
SA_count(sa, value) ==
    LET found == SA_search(sa, value)
    IN  Ok(found[2] - found[1] + 1)

\* list(SA.indexes(value)): the offsets the generator yields, or the
\* IndexError of an idx that is outside the array
SA_indexes(sa, value) ==
    LET found == SA_search(sa, value)
    IN  IF \E idx \in found[1]..found[2] : idx >= Len(sa.array)
        THEN Raise("IndexError")
        ELSE Ok([n \in 1..(found[2] - found[1] + 1)
                    |-> sa.array[found[1] + n]])

\* CSA.build: the for loop over the sorted suffixes, from idx; p is the
\* first character of the suffix before, None before the first suffix
RECURSIVE CSA_buildloop(_, _, _, _, _, _)
CSA_buildloop(txt, sorted, idx, p, offsets, predecessors) ==
    IF idx >= Len(sorted)
    THEN [kind |-> "CSA", offsets |-> offsets, predecessors |-> predecessors]
    ELSE LET off == sorted[idx + 1]
             pred == IF off = 0 THEN "" ELSE txt[off]
             c == txt[off + 1]
             closed == IF p \in DOMAIN offsets
                       THEN [offsets EXCEPT ![p] = <<@[1], idx>>]
                       ELSE offsets
         IN  IF c # p
             THEN CSA_buildloop(txt, sorted, idx + 1, c,
                                closed @@ (c :> <<idx, Len(txt)>>),
                                Append(predecessors, pred))
             ELSE CSA_buildloop(txt, sorted, idx + 1, p, offsets,
                                Append(predecessors, pred))

\* CSA.build
CSA_build(txt) ==
    CSA_buildloop(txt, SortedSuffixes(txt, 0..(Len(txt) - 1)), 0, "None",
                  <<>>, <<>>)

\* CSA.__len__
CSA_len(csa) == Len(csa.predecessors)

\* sum(1 for x in preds if x == p)
CSA_sum(preds, p) == Cardinality({n \in 1..Len(preds) : preds[n] = p})

\* CSA.count: the for loop over reversed(range(len(value))), from idx
RECURSIVE CSA_countloop(_, _, _, _, _, _, _)
CSA_countloop(csa, value, idx, s, e, soff, eoff) ==
    IF idx < 0 THEN Ok(e - s)
    ELSE LET c == value[idx + 1]
             p == IF idx = 0 THEN "" ELSE value[idx]
         IN  IF c \notin DOMAIN csa.offsets THEN Ok(0)
             ELSE LET s1 == csa.offsets[c][1] + soff
                      e1 == csa.offsets[c][2] - eoff
                  IN  CSA_countloop(csa, value, idx - 1, s1, e1,
                          CSA_sum(Py_sliceto(csa.predecessors, s1), p),
                          CSA_sum(Py_slicefrom(csa.predecessors, e1), p))

\* CSA.count
CSA_count(csa, value) ==
    IF value = <<>> THEN Ok(CSA_len(csa) + 1)
    ELSE CSA_countloop(csa, value, Len(value) - 1, 1, 0, 0, 0)

\* index.count(value)
Index_count(idx, value) ==
    IF idx.kind = "SA" THEN SA_count(idx, value) ELSE CSA_count(idx, value)

(***************************************************************************)
(* succinct/json.py: the semi-indexed json Document.  A Document is its    *)
(* source text src and, once _loads has run, the bits bv of the balanced   *)
(* parentheses under its Navigator and the bits pos under its Index.  A    *)
(* json node is the kind render gave it and the position of its tree node. *)
(***************************************************************************)
NoDocument == [kind |-> "none"]

\* Document.__init__: nothing is loaded yet (_nav and _idx are None)
Document(src) ==
    [kind |-> "Document", src |-> src, loaded |-> FALSE,
     bv |-> <<>>, pos |-> <<>>]

\* the document after a successful _loads
LoadedDocument(src, bv, pos) ==
    [kind |-> "Document", src |-> src, loaded |-> TRUE,
     bv |-> bv, pos |-> pos]

\* s[1:-1]
Py_inner(s) == SubSeq(s, 2, Len(s) - 1)

\* Document._loads, the scan of a string literal: i characters of src are
\* consumed, c is the last one read
RECURSIVE Document_loadsstring(_, _, _, _, _)
Document_loadsstring(src, i, c, escaped, pos) ==
    IF escaped \/ c # "\""
    THEN IF i >= Len(src) THEN Raise("ValueError")
         ELSE Document_loadsstring(src, i + 1, src[i + 1],
                                   src[i + 1] = "\\", pos \o <<"0">>)
    ELSE Ok([i |-> i, pos |-> pos \o <<"0">>])

\* Document._loads, the loop over the characters of src
RECURSIVE Document_loadsloop(_, _, _, _)
Document_loadsloop(src, i, bv, pos) ==
    IF i >= Len(src) THEN Ok([bv |-> bv, pos |-> pos])
    ELSE LET c == src[i + 1]
             s == Document_loadsstring(src, i + 1, c, TRUE, pos)
         IN  IF c \in {"[", "{"}
             THEN Document_loadsloop(src, i + 1, bv \o <<"1", "1">>,
                                     pos \o <<"1">>)
             ELSE IF c \in {"}", "]"}
             THEN Document_loadsloop(src, i + 1, bv \o <<"0", "0">>,
                                     pos \o <<"1">>)
             ELSE IF c \in {":", ","}
             THEN Document_loadsloop(src, i + 1, bv \o <<"0", "1">>,
                                     pos \o <<"1">>)
             ELSE IF c = "\""
             THEN IF Raises(s) THEN s
                  ELSE Document_loadsloop(src, s.val.i, bv, s.val.pos)
             ELSE Document_loadsloop(src, i + 1, bv, pos \o <<"0">>)

\* Document._loads: the bits of the tree and of the index, or the error
Document_loads(src) ==
    LET encoded(r, init) == IF init # "ok" THEN Raise(init) ELSE Ok(r.val)
        tokenized(r, bv) ==
            IF Raises(r) THEN r
            ELSE IF Len(bv) > 0
                    /\ (Len(bv) < 2
                        \/ SubSeq(bv, Len(bv) - 1, Len(bv)) # <<"0", "0">>)
            THEN Raise("ValueError")
            ELSE encoded(r, BP_init(bv))
        loadsof(r) == tokenized(r, r.val.bv)
    IN  loadsof(Document_loadsloop(src, 0, <<>>, <<>>))

\* EliasFano.__init__ of a BitVector: the indices of its '1' bits
RECURSIVE EliasFano_data(_, _)
EliasFano_data(posbits, idx) ==
    IF idx >= Len(posbits) THEN <<>>
    ELSE (IF posbits[idx + 1] = "1" THEN <<idx>> ELSE <<>>)
         \o EliasFano_data(posbits, idx + 1)

\* EliasFano.__getitem__ for an integer idx
EliasFano_getitem(data, idx) ==
    LET j == IF idx < 0 THEN idx + Len(data) ELSE idx
    IN  IF j < 0 \/ j >= Len(data) THEN Raise("IndexError")
        ELSE Ok(data[j + 1])

\* Document.idx.enc
Document_enc(d) == EliasFano_data(d.pos, 0)

\* Index.__len__
JSONIndex_len(d) == Len(Document_enc(d)) * 2

\* Index.lookup
JSONIndex_lookup(d, pos) ==
    LET r == EliasFano_getitem(Document_enc(d), pos \div 2)
    IN  IF Raises(r) THEN r ELSE Ok(r.val + (pos % 2))

\* src[s:e] for 0 <= s and 0 <= e
Py_slice(src, s, e) == SubSeq(src, s + 1, Min2(e, Len(src)))

\* Index.__getitem__ for slice(start, stop) with 0 <= start
JSONIndex_getslice(d, start, stop) ==
    LET slice(s, e) ==
            IF Raises(s) THEN s
            ELSE IF stop >= JSONIndex_len(d)
            THEN Ok(Py_slicefrom(d.src, s.val))
            ELSE IF Raises(e) THEN e
            ELSE Ok(Py_slice(d.src, s.val, e.val))
    IN  slice(JSONIndex_lookup(d, start), JSONIndex_lookup(d, stop))

\* Node.__str__ of the json node over the tree node at pos
JSONNode_str(d, pos) ==
    LET stripped(t) == IF Raises(t) THEN t ELSE Ok(Py_strip(t.val))
        closed(c) == IF Raises(c) THEN c
                     ELSE stripped(JSONIndex_getslice(d, pos, c.val))
    IN  closed(BP_close(d.bv, pos))

\* the json nodes: List, Object and Primitive over a tree node, and Null
JSONNode(kind, pos) == [kind |-> kind, pos |-> pos]
Null == JSONNode("Null", -1)

\* Document.render, the loop that skips white space
RECURSIVE Document_renderskip(_, _)
Document_renderskip(src, idx) ==
    IF idx < Len(src) /\ Py_isspace(src[idx + 1])
    THEN Document_renderskip(src, idx + 1)
    ELSE idx

\* Document.render of the tree node at pos; Container.__init__ moves a
\* container to the even position that follows an odd one
Document_render(d, pos) ==
    LET node(c) ==
            IF Raises(c) THEN c
            ELSE IF c.val = "[" THEN Ok(JSONNode("List", pos + (pos % 2)))
            ELSE IF c.val = "{" THEN Ok(JSONNode("Object", pos + (pos % 2)))
            ELSE Ok(JSONNode("Primitive", pos))
        found(l) ==
            IF Raises(l) THEN l
            ELSE node(StrGetItem(d.src, Document_renderskip(d.src, l.val)))
    IN  found(JSONIndex_lookup(d, pos))

\* Document.render applied to the outcome of a tree call
Document_renderof(d, r) == IF IsOk(r) THEN Document_render(d, r.val) ELSE r

\* Container.__init__: the position of the tree node it is given, after it
\* has added pos % 2 to it
Container_init(pos) == pos + (pos % 2)

\* the position of the tree node handed to Document.render once render has
\* returned: List and Object are Containers, whose constructor assigns to
\* the pos of the node it is given; a Primitive keeps the node as it is, and
\* so does a render that raises before it makes a json node
Document_renderhandle(d, pos) ==
    LET after(r) ==
            IF IsOk(r) /\ r.val.kind \in {"List", "Object"}
            THEN Container_init(pos)
            ELSE pos
    IN  after(Document_render(d, pos))

\* Document.root
Document_root(d) == Document_renderof(d, Nav_node(d.bv, 0))

\* Node.__len__
JSONNode_len(d, node) == Node_degree(d.bv, node.pos)

\* List.__getitem__ for an integer item
List_getitem(d, node, item) ==
    LET negative(n) ==
            IF Raises(n) THEN n
            ELSE Document_renderof(d, Node_child(d.bv, node.pos, item + n.val))
    IN  IF item < 0 THEN negative(JSONNode_len(d, node))
        ELSE Document_renderof(d, Node_child(d.bv, node.pos, item))

\* slice.indices(n) of a slice without a step, one bound: None is the
\* default, a negative bound counts from the end, and the bound is clipped
\* to 0..n
Py_sliceindex(bound, n, default) ==
    IF bound.kind = "NoneType" THEN default
    ELSE IF bound.v < 0 THEN Max2(bound.v + n, 0)
    ELSE Min2(bound.v, n)

\* [self[i] for i in range(lo, hi)]: the first exception ends the list
RECURSIVE List_range(_, _, _, _)
List_range(d, node, lo, hi) ==
    LET rest(v, r) == IF Raises(r) THEN r ELSE Ok(<<v.val>> \o r.val)
        element(v) == IF Raises(v) THEN v
                      ELSE rest(v, List_range(d, node, lo + 1, hi))
    IN  IF lo >= hi THEN Ok(<<>>)
        ELSE element(List_getitem(d, node, lo))

\* List.__getitem__ for a slice item: a Python list of json nodes
List_getslice(d, node, item) ==
    LET elements(r) == IF Raises(r) THEN r
                       ELSE Ok([kind |-> "list", pos |-> -1, v |-> r.val])
        slice(n) ==
            IF Raises(n) THEN n
            ELSE IF item.start.kind = "float" \/ item.stop.kind = "float"
            THEN Raise("TypeError")
            ELSE elements(List_range(d, node,
                                     Py_sliceindex(item.start, n.val, 0),
                                     Py_sliceindex(item.stop, n.val, n.val)))
    IN  slice(JSONNode_len(d, node))

\* a stream of results: the items it yields and the exception that ends
\* it, "none" when it ends by itself
Stream(items, exc) == [items |-> items, exc |-> exc]

Stream_chain_drops_results_before_error(a, b) ==
    IF a.exc # "none" THEN a
    ELSE IF b.exc # "none" THEN Stream(<<>>, b.exc)
    ELSE Stream(a.items \o b.items, b.exc)

\* the stream a followed by the stream b, as a generator yields the
\* results of a and then those of b: an exception of a ends both
Stream_chain(a, b) ==
    IF a.exc # "none" THEN a ELSE Stream(a.items \o b.items, b.exc)

\* iter(list): Sequence.__iter__ reads self[i] for i = 0, 1, ... until an
\* IndexError
RECURSIVE List_iter(_, _, _)
List_iter(d, node, i) ==
    LET item(v) ==
            IF v.exc = "IndexError" THEN Stream(<<>>, "none")
            ELSE IF Raises(v) THEN Stream(<<>>, v.exc)
            ELSE Stream_chain(Stream(<<v.val>>, "none"),
                              List_iter(d, node, i + 1))
    IN  item(List_getitem(d, node, i))

\* Object._items: the children of the node, two by two; a last child
\* without a partner ends the generator
RECURSIVE Object_itemsfrom(_, _, _)
Object_itemsfrom(d, node, k) ==
    LET item(key, val) == [key |-> key.val, val |-> val.val]
    IN  IF k + 1 >= JSONNode_len(d, node).val THEN <<>>
        ELSE <<item(Node_child(d.bv, node.pos, k),
                    Node_child(d.bv, node.pos, k + 1))>>
             \o Object_itemsfrom(d, node, k + 2)

Object_items(d, node) == Object_itemsfrom(d, node, 0)

\* Object._key
Object_key(d, keypos) == Py_inner(JSONNode_str(d, keypos).val)

\* Object.__iter__
Object_keys(d, node) ==
    LET keys(items) == [n \in 1..Len(items) |-> Object_key(d, items[n].key)]
    IN  keys(Object_items(d, node))

\* Object.__getitem__ for a string item
Object_getitem(d, node, item) ==
    LET first(items, hits) ==
            IF hits = {} THEN Raise("KeyError")
            ELSE Document_render(d, items[SetMin(hits)].val)
        getitem(items) ==
            first(items, {n \in 1..Len(items) :
                             Object_key(d, items[n].key) = item})
    IN  getitem(Object_items(d, node))

\* Mapping.get(item, null)
Object_get(d, node, item) ==
    LET get(r) == IF r.exc = "KeyError" THEN Ok(Null) ELSE r
    IN  get(Object_getitem(d, node, item))

\* Mapping.values(): [self[key] for key in self]
RECURSIVE Object_valuesfrom(_, _, _, _)
Object_valuesfrom(d, node, keys, n) ==
    LET value(v) ==
            IF Raises(v) THEN Stream(<<>>, v.exc)
            ELSE Stream_chain(Stream(<<v.val>>, "none"),
                              Object_valuesfrom(d, node, keys, n + 1))
    IN  IF n > Len(keys) THEN Stream(<<>>, "none")
        ELSE value(Object_getitem(d, node, keys[n]))

Object_values(d, node) ==
    LET values(vs) == IF vs.exc # "none" THEN Stream(<<>>, vs.exc) ELSE vs
    IN  values(Object_valuesfrom(d, node, Object_keys(d, node), 1))

(***************************************************************************)
(* succinct/json.py: Query.  A query is the parse tree of its jq text, a   *)
(* tree of [data, children] as the parser hands it to execute; a token is  *)
(* the string of its characters.                                           *)
(***************************************************************************)
Tree(data, children) == [data |-> data, children |-> children]

\* int(token) of a SIGNED_INT token
Py_digits == <<"0", "1", "2", "3", "4", "5", "6", "7", "8", "9">>
Py_digit(c) == (CHOOSE n \in 1..10 : Py_digits[n] = c) - 1

RECURSIVE Py_natural(_)
Py_natural(s) ==
    IF Len(s) = 0 THEN 0
    ELSE 10 * Py_natural(SubSeq(s, 1, Len(s) - 1)) + Py_digit(s[Len(s)])

Py_int(s) ==
    IF s[1] = "-" THEN 0 - Py_natural(Tail(s))
    ELSE IF s[1] = "+" THEN Py_natural(Tail(s))
    ELSE Py_natural(s)

\* float(token) of a SIGNED_FLOAT token written as digits '.' digits: the
\* number num / den, den a power of ten
Py_float(s) ==
    LET body == IF s[1] \in {"-", "+"} THEN Tail(s) ELSE s
        dot == CHOOSE n \in 1..Len(body) : body[n] = "."
        frac == SubSeq(body, dot + 1, Len(body))
        mag == Py_natural(SubSeq(body, 1, dot - 1)) * (10 ^ Len(frac))
               + Py_natural(frac)
    IN  [num |-> IF s[1] = "-" THEN 0 - mag ELSE mag, den |-> 10 ^ Len(frac)]

\* float.is_integer
Py_isinteger(x) == x.num % x.den = 0

\* int(x) of a float: the digits after the point are dropped
Py_trunc(x) ==
    IF x.num >= 0 THEN x.num \div x.den ELSE 0 - ((0 - x.num) \div x.den)

\* the Python values a query handles besides json nodes
PyValue(type, v) == [kind |-> type, pos |-> -1, v |-> v]

Query_optional_never(expression) == FALSE

\* optional(expression)
Query_optional(expression) ==
    \E n \in 1..Len(expression.children) :
        expression.children[n].data = "optional"

\* the TypeError of throw and of properties.index
Query_throw == Stream(<<>>, "TypeError")

\* iterate, for one node of the stream
Query_iteratenode(d, expression, node) ==
    IF node.kind = "List" THEN List_iter(d, node, 0)
    ELSE IF node.kind = "Object" THEN Object_values(d, node)
    ELSE IF Query_optional(expression) THEN Stream(<<>>, "none")
    ELSE Query_throw

\* iterate
RECURSIVE Query_iterate(_, _, _, _)
Query_iterate(d, expression, stream, n) ==
    IF n > Len(stream.items) THEN Stream(<<>>, stream.exc)
    ELSE Stream_chain(Query_iteratenode(d, expression, stream.items[n]),
                      Query_iterate(d, expression, stream, n + 1))

\* indexer.mkint: a float that is_integer stays a float
Query_mkint(expression) ==
    LET idx == Py_float(expression.children[1])
    IN  CASE expression.data = "integer" ->
                 PyValue("int", Py_int(expression.children[1]))
          [] expression.data = "float" ->
                 IF ~Py_isinteger(idx) THEN PyValue("int", Py_trunc(idx) + 1)
                 ELSE PyValue("float", idx)

\* indexer.mkslice, one bound of the slice: None without a child of that
\* name
Query_mkbound(expression, name) ==
    LET named == {n \in 1..Len(expression.children) :
                     expression.children[n].data = name}
    IN  IF named = {} THEN PyValue("NoneType", 0)
        ELSE Query_mkint(expression.children[SetMax(named)].children[1])

\* indexer.mkslice
Query_mkslice(expression) ==
    PyValue("slice", [start |-> Query_mkbound(expression, "start"),
                      stop |-> Query_mkbound(expression, "end")])

\* indexer.mkindex for a cname, a string, a number or a slice: the one item
Query_mkindex(expression) ==
    CASE expression.data = "cname" ->
             PyValue("str", expression.children[1])
      [] expression.data = "string" ->
             PyValue("str", Py_inner(expression.children[1]))
      [] expression.data \in {"integer", "float"} -> Query_mkint(expression)
      [] expression.data = "slice" -> Query_mkslice(expression)

\* indexer, for one item and one node of the stream
Query_indexernode(d, expression, item, node) ==
    LET member(w) == IF Raises(w) THEN Stream(<<>>, w.exc)
                     ELSE Stream(<<w.val>>, "none")
        element(v) == IF v.exc = "IndexError" THEN Stream(<<Null>>, "none")
                      ELSE IF Raises(v) THEN Stream(<<>>, v.exc)
                      ELSE Stream(<<v.val>>, "none")
    IN  IF node.kind = "Object" /\ item.kind = "str"
        THEN member(Object_get(d, node, item.v))
        ELSE IF node.kind = "List" /\ item.kind \in {"int", "bool"}
        THEN element(List_getitem(d, node,
                                  IF item.kind = "int" THEN item.v
                                  ELSE IF item.v THEN 1 ELSE 0))
        ELSE IF node.kind = "List" /\ item.kind = "slice"
        THEN element(List_getslice(d, node, item.v))
        ELSE IF Query_optional(expression) THEN Stream(<<>>, "none")
        ELSE Query_throw

\* int(s) of the text of a Primitive: a ValueError unless s is an integer
\* literal
Py_isint(s) ==
    LET body == IF Len(s) > 0 /\ s[1] \in {"-", "+"} THEN Tail(s) ELSE s
    IN  /\ Len(body) > 0
        /\ \A n \in 1..Len(body) : \E k \in 1..10 : Py_digits[k] = body[n]

\* indexer, the item once the node is seen: on an Object a Primitive item
\* is replaced by str(item)[1:-1], on a List by int(str(item)), and item
\* stays what it has become for the nodes that follow
Query_itemat(d, item, node) ==
    LET converted(t) ==
            IF Raises(t) THEN t
            ELSE IF node.kind = "Object"
            THEN Ok(PyValue("str", Py_inner(t.val)))
            ELSE IF Py_isint(t.val) THEN Ok(PyValue("int", Py_int(t.val)))
            ELSE Raise("ValueError")
    IN  IF item.kind = "Primitive" /\ node.kind \in {"Object", "List"}
        THEN converted(JSONNode_str(d, item.pos))
        ELSE Ok(item)

\* indexer, the loop over the nodes of the stream for one item, from the
\* n-th node on; Query_indexerat is its body for the item as it is at the
\* n-th node
RECURSIVE Query_indexer(_, _, _, _, _)
Query_indexerat(d, expression, i, stream, n) ==
    IF Raises(i) THEN Stream(<<>>, i.exc)
    ELSE Stream_chain(
             Query_indexernode(d, expression, i.val, stream.items[n]),
             Query_indexer(d, expression, i.val, stream, n + 1))

Query_indexer(d, expression, item, stream, n) ==
    IF n > Len(stream.items) THEN Stream(<<>>, stream.exc)
    ELSE Query_indexerat(d, expression,
                         Query_itemat(d, item, stream.items[n]), stream, n)

\* properties.index, for one node of the stream
Query_indexnode(d, expression, node) ==
    LET item == expression.children[1].children[1]
        member(w) == IF Raises(w) THEN Stream(<<>>, w.exc)
                     ELSE Stream(<<w.val>>, "none")
    IN  IF node.kind = "Object"
        THEN member(Object_get(d, node, item))
        ELSE IF ~Query_optional(expression) THEN Query_throw
        ELSE Stream(<<>>, "none")

\* properties.index
RECURSIVE Query_index(_, _, _, _)
Query_index(d, expression, stream, n) ==
    IF n > Len(stream.items) THEN Stream(<<>>, stream.exc)
    ELSE Stream_chain(Query_indexnode(d, expression, stream.items[n]),
                      Query_index(d, expression, stream, n + 1))

\* properties: the stream runs through index once for each property
RECURSIVE Query_properties(_, _, _, _)
Query_properties(d, expression, stream, n) ==
    IF n > Len(expression.children) THEN stream
    ELSE Query_properties(d, expression,
                          Query_index(d, expression.children[n], stream, 1),
                          n + 1)

\* primitive, for null, a boolean, a string or an integer
Query_primitive(expression) ==
    LET e == expression.children[1]
    IN  CASE e.data = "null" -> Null
          [] e.data = "boolean" ->
                 PyValue("bool", e.children[1] = <<"t", "r", "u", "e">>)
          [] e.data = "string" -> PyValue("str", Py_inner(e.children[1]))
          [] e.data = "integer" -> PyValue("int", Py_int(e.children[1]))
          [] e.data = "float" -> PyValue("float", Py_float(e.children[1]))

\* indexer, the loop over the items that mkindex yields: each item runs
\* through the nodes of the stream from the n-th on
RECURSIVE Query_indexeritems(_, _, _, _, _, _)
Query_indexeritems(d, expression, items, stream, k, n) ==
    IF k > Len(items.items) THEN Stream(<<>>, items.exc)
    ELSE Stream_chain(Query_indexer(d, expression, items.items[k], stream, n),
                      Query_indexeritems(d, expression, items, stream,
                                         k + 1, n))

\* evaluate, and concatenate: each subexpression runs over its own copy
\* of the stream, and the results are chained in the order of the
\* subexpressions.  listed tells the list [root] that the first stage is
\* handed, which every loop reads from its start, from the generator of
\* the stage before, which is read once.
RECURSIVE Query_evaluatein(_, _, _, _)

\* the first item that evaluate(x, stream) yields when stream is a
\* generator, and the number of nodes it has taken from the generator when
\* it yields it; nodes before the n-th are taken already
RECURSIVE Query_firstitem(_, _, _, _)

\* the first result among rs, where rs[m] are the results of a loop over
\* the first m nodes of the stream, lo <= m; without one, the error of the
\* loop, that of the stream, or the one met once the stream is exhausted
Query_firstresult(rs, lo, stream, resumed) ==
    LET hi == Len(stream.items)
        hits == {m \in lo..hi : rs[m].items # <<>>}
    IN  IF hits # {}
        THEN [found |-> TRUE, item |-> rs[SetMin(hits)].items[1],
              used |-> SetMin(hits), exc |-> "none"]
        ELSE [found |-> FALSE, item |-> Null, used |-> hi,
              exc |-> IF rs[hi].exc # "none" THEN rs[hi].exc
                      ELSE IF stream.exc # "none" THEN stream.exc
                      ELSE resumed]

\* the error that evaluate(x, stream) ends with when the generator is
\* exhausted by another reader after the first used nodes
Query_resumed(d, x, stream, used) ==
    Query_evaluatein(d, x, Stream(SubSeq(stream.items, 1, used), "none"),
                     FALSE).exc

\* the first item of an indexer with an expression for its index, given
\* the first item f of the expression: the loop over the nodes takes the
\* nodes that follow those the expression has taken
Query_firstshared(d, e, f, stream) ==
    IF ~f.found THEN f
    ELSE Query_firstresult(
             [m \in f.used..Len(stream.items) |->
                 Query_indexer(d, e, f.item,
                               Stream(SubSeq(stream.items, 1, m), "none"),
                               f.used + 1)],
             f.used, stream,
             Query_resumed(d, e.children[1], stream, f.used))

Query_firstitem(d, x, stream, n) ==
    LET e == x.children[1]
        len == Len(stream.items)
        nothing(used, exc) == [found |-> FALSE, item |-> Null,
                               used |-> used, exc |-> exc]
        yielded(item, used) == [found |-> TRUE, item |-> item, used |-> used,
                                exc |-> "none"]
        \* a filter that takes one node at a time
        node(r) == IF r.items # <<>> THEN yielded(r.items[1], n)
                   ELSE IF r.exc # "none" THEN nothing(n, r.exc)
                   ELSE Query_firstitem(d, x, stream, n + 1)
        \* concatenate: the copy of a later subexpression holds every
        \* node, which the subexpressions before it have taken
        others == Tree("expression",
                       <<Tree("concatenator", Tail(e.children))>>)
        later(f) == [f EXCEPT !.used = len]
        first(f) == IF f.found \/ f.exc # "none" \/ Len(e.children) = 1
                    THEN f
                    ELSE later(Query_firstitem(d, others, stream, 1))
    IN  CASE e.data = "primitive" -> yielded(Query_primitive(e), n - 1)
          [] e.data = "concatenator" ->
                 first(Query_firstitem(d, e.children[1], stream, 1))
          [] e.data = "indexer" /\ e.children[1].data = "expression" ->
                 Query_firstshared(
                     d, e, Query_firstitem(d, e.children[1], stream, 1),
                     stream)
          [] OTHER ->
                 IF n > len THEN nothing(len, stream.exc)
                 ELSE node(Query_evaluatein(
                          d, x, Stream(<<stream.items[n]>>, "none"), FALSE))

\* indexer: mkindex yields one item for a name, a string, a number or a
\* slice, and the results of the expression for an expression.  Over a
\* list every item runs through the nodes of the list.  Over a generator
\* the expression takes its nodes from the generator that the loop over
\* the nodes reads: the first item runs through the nodes that are left
\* once it is yielded, the items after it find the generator exhausted,
\* and the indexer ends as the expression ends
Query_indexerfrom(d, expression, m, stream) ==
    Query_indexeritems(d, expression, m.items, stream, 1, m.n)

Query_indexerover(d, expression, stream, listed) ==
    LET x == expression.children[1]
        from(items, n) == [items |-> items, n |-> n]
        shared(f) ==
            IF f.found
            THEN from(Stream(<<f.item>>,
                             Query_resumed(d, x, stream, f.used)),
                      f.used + 1)
            ELSE from(Stream(<<>>, f.exc), 1)
    IN  Query_indexerfrom(
            d, expression,
            IF x.data # "expression"
            THEN from(Stream(<<Query_mkindex(x)>>, "none"), 1)
            ELSE IF listed
            THEN from(Query_evaluatein(d, x, stream, TRUE), 1)
            ELSE shared(Query_firstitem(d, x, stream, 1)),
            stream)

RECURSIVE Query_concatenate_per_node(_, _, _, _)
Query_concatenate_per_node(d, expression, stream, n) ==
    IF Len(stream.items) = 0 THEN Stream(<<>>, stream.exc)
    ELSE IF n > Len(expression.children)
    THEN Query_concatenate_per_node(d, expression,
                                    Stream(Tail(stream.items), stream.exc), 1)
    ELSE Stream_chain(
             Query_evaluatein(d, expression.children[n],
                              Stream(<<Head(stream.items)>>, "none"), FALSE),
             Query_concatenate_per_node(d, expression, stream, n + 1))

RECURSIVE Query_concatenate(_, _, _, _)
Query_concatenate(d, expression, stream, n) ==
    IF n > Len(expression.children) THEN Stream(<<>>, "none")
    ELSE Stream_chain(
             Query_evaluatein(d, expression.children[n], stream, FALSE),
             Query_concatenate(d, expression, stream, n + 1))

Query_evaluatein(d, expression, stream, listed) ==
    LET e == expression.children[1]
    IN  IF e.data = "identity" THEN stream
        ELSE IF e.data = "primitive"
        THEN Stream(<<Query_primitive(e)>>, "none")
        ELSE IF e.data = "properties" THEN Query_properties(d, e, stream, 1)
        ELSE IF e.data = "indexer"
        THEN Query_indexerover(d, e, stream, listed)
        ELSE IF e.data = "iterator" THEN Query_iterate(d, e, stream, 1)
        ELSE Query_concatenate(d, e, stream, 1)

\* evaluate over the generator of the stage before
Query_evaluate(d, expression, stream) ==
    Query_evaluatein(d, expression, stream, FALSE)

\* evaluate for the first stage, whose stream is the list [root]
Query_evaluatelist(d, expression, stream) ==
    Query_evaluatein(d, expression, stream, TRUE)

\* Query.execute, the loop over the stages of the pipeline
RECURSIVE Query_pipeline(_, _, _, _)
Query_pipeline(d, pipeline, stream, n) ==
    LET staged(next) == Query_pipeline(d, pipeline, next, n + 1)
    IN  IF n > Len(pipeline.children) THEN stream
        ELSE staged(Query_evaluatein(d, pipeline.children[n], stream, n = 1))

\* Query.execute(root): the results it yields, then the exception if any
Query_execute(d, tree, rootnode) ==
    Query_pipeline(d, tree.children[1], Stream(<<rootnode>>, "none"), 1)

\* json.loads of the standard library, for the texts of the documents
\* below: white space outside string literals is insignificant, and a text
\* that is no json value is a ValueError
RECURSIVE JSON_compact(_, _)
JSON_compact(s, mode) ==
    IF Len(s) = 0 THEN <<>>
    ELSE IF mode = "escape"
    THEN <<Head(s)>> \o JSON_compact(Tail(s), "string")
    ELSE IF mode = "string"
    THEN <<Head(s)>> \o JSON_compact(Tail(s),
                                     IF Head(s) = "\"" THEN "value"
                                     ELSE IF Head(s) = "\\" THEN "escape"
                                     ELSE "string")
    ELSE IF Py_isspace(Head(s)) THEN JSON_compact(Tail(s), "value")
    ELSE <<Head(s)>> \o JSON_compact(Tail(s),
                                     IF Head(s) = "\"" THEN "string"
                                     ELSE "value")

(***************************************************************************)
(* The state machines.  Each specification exercises one class: its Init   *)
(* is the state after a constructor call, and each action is one call on   *)
(* the object, which records the call and its outcome in call.  The        *)
(* variables of the other classes stay idle.                               *)
(***************************************************************************)
Call(op, args, ret) == [op |-> op, args |-> args, ret |-> ret]
NoCall == Call("init", <<>>, None)
\* the patterns handed to rank and select: one or two bits, and one that is
\* no bit string
Patterns == (SeqsUpTo(Bit, 2) \ {<<>>}) \cup {<<"x">>}

(***************************************************************************)
(* SpecBV: BitVector(bits) of test/bitvector.py.                           *)
(***************************************************************************)
InitBV ==
    /\ bits \in SeqsUpTo(Bit, MaxBits)
    /\ built = "no"
    /\ text = <<>>
    /\ codec = NoCodec
    /\ root = <<>>
    /\ index = NoIndex
    /\ doc = NoDocument
    /\ call = NoCall

\* bv.append(bit)
BVAppend(bit) ==
    /\ Len(bits) < MaxBits
    /\ bits' = BV_append(bits, bit)
    /\ call' = Call("append", <<bit>>, None)
    /\ UNCHANGED <<built, text, codec, root, index, doc>>

\* bv.extend(bs)
BVExtend(bs) ==
    /\ Len(bits) + Len(bs) <= MaxBits
    /\ bits' = BV_extend(bits, bs)
    /\ call' = Call("extend", <<bs>>, None)
    /\ UNCHANGED <<built, text, codec, root, index, doc>>

\* bv.rank(p, i)
BVRank(p, i) ==
    /\ call' = Call("rank", <<p, i>>, BV_rank(bits, p, i))
    /\ UNCHANGED <<bits, built, text, codec, root, index, doc>>

\* bv.select(p, k)
BVSelect(p, k) ==
    /\ call' = Call("select", <<p, k>>, BV_select(bits, p, k))
    /\ UNCHANGED <<bits, built, text, codec, root, index, doc>>

NextBV ==
    \/ \E bit \in Bit : BVAppend(bit)
    \/ \E bs \in SeqsUpTo(Bit, MaxExtend) : BVExtend(bs)
    \/ \E p \in Patterns, i \in -1..Len(bits) : BVRank(p, i)
    \/ \E p \in Patterns, k \in 0..(Len(bits) + 1) : BVSelect(p, k)

SpecBV == InitBV /\ [][NextBV]_vars

(***************************************************************************)
(* SpecTree: BalancedParentheses(BitVector(bits)) and the Navigator over   *)
(* it.                                                                     *)
(***************************************************************************)
InitTree ==
    /\ bits \in SeqsUpTo(Bit, 2 * MaxNodes)
    /\ built = "new"
    /\ text = <<>>
    /\ codec = NoCodec
    /\ root = <<>>
    /\ index = NoIndex
    /\ doc = NoDocument
    /\ call = NoCall

\* the positions of the encoding, and those that hold a node
Positions == 0..(Len(bits) - 1)
NodePositions == {pos \in Positions : BP_is(bits, pos, "(")}

\* BalancedParentheses(bv)
BPConstruct ==
    /\ built = "new"
    /\ built' = BP_init(bits)
    /\ call' = Call("construct", <<>>, None)
    /\ UNCHANGED <<bits, text, codec, root, index, doc>>

\* enc.open(i)
BPOpen(i) ==
    /\ built = "ok"
    /\ call' = Call("open", <<i>>, BP_open(bits, i))
    /\ UNCHANGED <<bits, built, text, codec, root, index, doc>>

\* enc.close(i)
BPClose(i) ==
    /\ built = "ok"
    /\ call' = Call("close", <<i>>, BP_close(bits, i))
    /\ UNCHANGED <<bits, built, text, codec, root, index, doc>>

\* nav.node(pos).child(k)
NodeChild(pos, k) ==
    /\ built = "ok"
    /\ call' = Call("child", <<pos, k>>, Node_child(bits, pos, k))
    /\ UNCHANGED <<bits, built, text, codec, root, index, doc>>

\* nav.node(pos).parent()
NodeParent(pos) ==
    /\ built = "ok"
    /\ call' = Call("parent", <<pos>>, Node_parent(bits, pos))
    /\ UNCHANGED <<bits, built, text, codec, root, index, doc>>

\* nav.node(pos).lca(nav.node(npos))
NodeLca(pos, npos) ==
    /\ built = "ok"
    /\ call' = Call("lca", <<pos, npos>>, Node_lca(bits, pos, npos))
    /\ UNCHANGED <<bits, built, text, codec, root, index, doc>>

\* sum(n.degree() for n in nav)
NavDegrees ==
    /\ built = "ok"
    /\ call' = Call("degrees", <<>>, Ok(Nav_sumdegrees(bits, 0)))
    /\ UNCHANGED <<bits, built, text, codec, root, index, doc>>

\* enc.bwdsearch(i, d)
BPBwdsearch(i, d) ==
    /\ built = "ok"
    /\ call' = Call("bwdsearch", <<i, d>>, BP_bwdsearch(bits, i, d))
    /\ UNCHANGED <<bits, built, text, codec, root, index, doc>>

\* enc.enclose(i)
BPEnclose(i) ==
    /\ built = "ok"
    /\ call' = Call("enclose", <<i>>, BP_enclose(bits, i))
    /\ UNCHANGED <<bits, built, text, codec, root, index, doc>>

\* nav.node(pos).ancestor(d)
NodeAncestor(pos, d) ==
    /\ built = "ok"
    /\ call' = Call("ancestor", <<pos, d>>, Node_ancestor(bits, pos, d))
    /\ UNCHANGED <<bits, built, text, codec, root, index, doc>>

\* nav.levelleftmost(d)
NavLevelLeftmost(d) ==
    /\ built = "ok"
    /\ call' = Call("levelleftmost", <<d>>, Nav_levelleftmost(bits, d))
    /\ UNCHANGED <<bits, built, text, codec, root, index, doc>>

\* nav.levelrightmost(d)
NavLevelRightmost(d) ==
    /\ built = "ok"
    /\ call' = Call("levelrightmost", <<d>>, Nav_levelrightmost(bits, d))
    /\ UNCHANGED <<bits, built, text, codec, root, index, doc>>

NextTree ==
    \/ BPConstruct
    \/ \E i \in -1..Len(bits) : BPOpen(i)
    \/ \E i \in -1..Len(bits) : BPClose(i)
    \/ \E pos \in NodePositions, k \in -1..Nav_len(bits) : NodeChild(pos, k)
    \/ \E pos \in NodePositions : NodeParent(pos)
    \/ \E pos \in NodePositions, npos \in NodePositions : NodeLca(pos, npos)
    \/ NavDegrees
    \/ \E i \in 0..Len(bits), d \in -3..2 : BPBwdsearch(i, d)
    \/ \E i \in -1..Len(bits) : BPEnclose(i)
    \/ \E pos \in NodePositions, d \in -1..Nav_len(bits) : NodeAncestor(pos, d)
    \/ \E d \in 0..(Nav_len(bits) + 1) : NavLevelLeftmost(d)
    \/ \E d \in 0..(Nav_len(bits) + 1) : NavLevelRightmost(d)

SpecTree == InitTree /\ [][NextTree]_vars

(***************************************************************************)
(* SpecWT: WaveletTree(text) of test/wavelet.py with its default codec.    *)
(***************************************************************************)
InitWT ==
    /\ bits = <<>>
    /\ built = "no"
    /\ text \in SeqsUpTo(Symbols, MaxText)
    /\ codec = ASCIICodec
    /\ root = WT_init(WT_emptytree, codec, text)
    /\ index = NoIndex
    /\ doc = NoDocument
    /\ call = NoCall

\* tree[idx]
WTGetItem(idx) ==
    /\ call' = Call("getitem", <<idx>>, WT_getitem(root, codec, idx))
    /\ UNCHANGED <<bits, built, text, codec, root, index, doc>>

\* tree.rank(c, i)
WTRank(c, i) ==
    /\ call' = Call("rank", <<c, i>>, WT_rank(root, codec, c, i))
    /\ UNCHANGED <<bits, built, text, codec, root, index, doc>>

\* tree.select(c, k)
WTSelect(c, k) ==
    /\ call' = Call("select", <<c, k>>, WT_select(root, codec, c, k))
    /\ UNCHANGED <<bits, built, text, codec, root, index, doc>>

NextWT ==
    \/ \E idx \in (-Len(text) - 1)..Len(text) : WTGetItem(idx)
    \/ \E c \in Symbols, i \in -1..Len(text) : WTRank(c, i)
    \/ \E c \in Symbols, k \in 0..(Len(text) + 1) : WTSelect(c, k)

SpecWT == InitWT /\ [][NextWT]_vars

(***************************************************************************)
(* SpecCodec: the codecs of succinct/wavelet.py, each constructed for a    *)
(* text and then asked to encode and to decode.                            *)
(***************************************************************************)
CodecKinds == {"ASCIICodec", "HuffmanCodec", "HuTuckerCodec"}

\* the strings handed to decode: bit strings, the ASCII codes, and binary
\* literals written as int accepts them
Codes ==
    SeqsUpTo(Bit, MaxCode) \cup {ASCIICodec_encode(s).val : s \in Symbols}
    \cup {<<"0", "b", "1">>, <<" ", "1">>, <<"+", "1">>, <<"-", "1">>,
          <<"+", " ", "1">>}

InitCodec ==
    /\ bits = <<>>
    /\ built = "no"
    /\ text \in SeqsUpTo(Symbols, MaxTrain)
    /\ codec = NoCodec
    /\ root = <<>>
    /\ index = NoIndex
    /\ doc = NoDocument
    /\ call = NoCall

\* ASCIICodec(), HuffmanCodec(text), HuTuckerCodec(text)
CodecConstruct(kind) ==
    /\ codec = NoCodec
    /\ codec' = CASE kind = "ASCIICodec" -> ASCIICodec
                  [] kind = "HuffmanCodec" -> HuffmanCodec_init(text)
                  [] kind = "HuTuckerCodec" -> HuTuckerCodec_init(text)
    /\ call' = Call(kind, <<>>, None)
    /\ UNCHANGED <<bits, built, text, root, index, doc>>

\* codec.encode(sym)
CodecEncode(sym) ==
    /\ codec.kind \in CodecKinds
    /\ call' = Call("encode", <<sym>>, Codec_encode(codec, sym))
    /\ UNCHANGED <<bits, built, text, codec, root, index, doc>>

\* codec.decode(code)
CodecDecode(code) ==
    /\ codec.kind \in CodecKinds
    /\ call' = Call("decode", <<code>>, Codec_decode(codec, PyStr(code)))
    /\ UNCHANGED <<bits, built, text, codec, root, index, doc>>

\* codec.decode(codec.encode(sym))
CodecRoundTrip(sym) ==
    /\ codec.kind \in CodecKinds
    /\ LET code == Codec_encode(codec, sym)
       IN  call' = Call("roundtrip", <<sym>>,
                        IF Raises(code) THEN code
                        ELSE Codec_decode(codec, PyStr(code.val)))
    /\ UNCHANGED <<bits, built, text, codec, root, index, doc>>

\* tree = WaveletTree(text, codec), and len(tree)
CodecWaveletTree ==
    /\ codec.kind \in CodecKinds
    /\ root = <<>>
    /\ root' = WT_init(WT_emptytree, codec, text)
    /\ call' = Call("WaveletTree", <<>>, Ok(WT_len(root')))
    /\ UNCHANGED <<bits, built, text, codec, index, doc>>

NextCodec ==
    \/ \E kind \in CodecKinds : CodecConstruct(kind)
    \/ \E sym \in Symbols : CodecEncode(sym)
    \/ \E code \in Codes : CodecDecode(code)
    \/ \E sym \in Symbols : CodecRoundTrip(sym)
    \/ CodecWaveletTree

SpecCodec == InitCodec /\ [][NextCodec]_vars

(***************************************************************************)
(* SpecIndex: SA.build(text) and CSA.build(text) of test/index.py, and the *)
(* searches on them.                                                       *)
(***************************************************************************)
IndexKinds == {"SA", "CSA"}

\* the characters of the indexed texts, and the patterns searched for
IndexSymbols == {"a", "b", "~"}
IndexPatterns == SeqsUpTo(IndexSymbols \cup {" "}, MaxPattern)

InitIndex ==
    /\ bits = <<>>
    /\ built = "no"
    /\ text \in SeqsUpTo(IndexSymbols, MaxIndexed)
    /\ codec = NoCodec
    /\ root = <<>>
    /\ index = NoIndex
    /\ doc = NoDocument
    /\ call = NoCall

\* SA.build(text), CSA.build(text)
IndexBuild(kind) ==
    /\ index = NoIndex
    /\ index' = IF kind = "SA" THEN SA_build(text) ELSE CSA_build(text)
    /\ call' = Call(kind, <<>>, None)
    /\ UNCHANGED <<bits, built, text, codec, root, doc>>

\* idx.count(value); the queries leave the index as it was built, and
\* each is made on the index right after its construction
IndexCount(value) ==
    /\ index.kind \in IndexKinds
    /\ call.op \in IndexKinds
    /\ call' = Call("count", <<value>>, Index_count(index, value))
    /\ UNCHANGED <<bits, built, text, codec, root, index, doc>>

\* list(idx.indexes(value)) on an SA
SAIndexes(value) ==
    /\ index.kind = "SA"
    /\ call.op = "SA"
    /\ call' = Call("indexes", <<value>>, SA_indexes(index, value))
    /\ UNCHANGED <<bits, built, text, codec, root, index, doc>>

NextIndex ==
    \/ \E kind \in IndexKinds : IndexBuild(kind)
    \/ \E value \in IndexPatterns : IndexCount(value)
    \/ \E value \in IndexPatterns : SAIndexes(value)

SpecIndex == InitIndex /\ [][NextIndex]_vars

(***************************************************************************)
(* SpecJSON: Document(src) of succinct/json.py for a json text src, then   *)
(* loads, Query(jq).execute and query as test/json.py calls them.          *)
(***************************************************************************)
\* the primitives and the keys of the documents
JSONPrimitives ==
    {<<"1">>, <<"\"", "a", "\"">>, <<"\"", "\\", "\"", "\"">>,
     <<"\"", "\\", "\"", ",", "\\", "\"", "\"">>}
JSONKeys == {<<"\"", "a", "\"">>, <<"\"", "b", "\"">>}

\* the json texts of each length up to n, without white space: V the
\* values, E the non-empty element lists, M the non-empty member lists
RECURSIVE JSON_table(_)
JSON_table(n) ==
    IF n = 0 THEN <<>>
    ELSE LET t == JSON_table(n - 1)
             Vof(k) == IF k \in 1..Len(t) THEN t[k].V ELSE {}
             Eof(k) == IF k \in 1..Len(t) THEN t[k].E ELSE {}
             Mof(k) == IF k \in 1..Len(t) THEN t[k].M ELSE {}
             V == {p \in JSONPrimitives : Len(p) = n}
                  \cup (IF n = 2 THEN {<<"[", "]">>, <<"{", "}">>} ELSE {})
                  \cup {<<"[">> \o e \o <<"]">> : e \in Eof(n - 2)}
                  \cup {<<"{">> \o m \o <<"}">> : m \in Mof(n - 2)}
             E == V \cup UNION {{v \o <<",">> \o e :
                                   v \in Vof(k), e \in Eof(n - k - 1)} :
                                k \in 1..n}
             M == UNION {
                      {key \o <<":">> \o v : v \in Vof(n - Len(key) - 1)}
                      \cup UNION {{key \o <<":">> \o v \o <<",">> \o m :
                                     v \in Vof(k),
                                     m \in Mof(n - Len(key) - k - 2)} :
                                  k \in 1..n} :
                      key \in JSONKeys}
         IN  Append(t, [V |-> V, E |-> E, M |-> M])

JSONTexts(n) == UNION {JSON_table(n)[k].V : k \in 1..n}

\* json.dumps puts a space after each ',' and ':' of these texts that is
\* outside a string literal
RECURSIVE JSON_spaced(_, _)
JSON_spaced(s, mode) ==
    IF Len(s) = 0 THEN <<>>
    ELSE IF mode = "escape"
    THEN <<Head(s)>> \o JSON_spaced(Tail(s), "string")
    ELSE IF mode = "string"
    THEN <<Head(s)>> \o JSON_spaced(Tail(s),
                                    IF Head(s) = "\"" THEN "value"
                                    ELSE IF Head(s) = "\\" THEN "escape"
                                    ELSE "string")
    ELSE IF Head(s) \in {",", ":"}
    THEN <<Head(s), " ">> \o JSON_spaced(Tail(s), "value")
    ELSE <<Head(s)>> \o JSON_spaced(Tail(s),
                                    IF Head(s) = "\"" THEN "string"
                                    ELSE "value")

\* the documents: every json text of at most MaxSrc characters, written
\* without white space or as json.dumps writes it
JSONValues == JSONTexts(MaxSrc)
JSONSources ==
    JSONValues
    \cup {s \in {JSON_spaced(v, "value") : v \in JSONValues} : Len(s) <= MaxSrc}

\* json.loads of the standard library, the grammar it accepts.  Each scan
\* takes the text and an index (from 1) and gives the index after what it
\* read, or 0 when the text is no json there.
JSON_white == {" ", "\t", "\n", "\r"}
JSON_at(s, i) == IF i \in 1..Len(s) THEN s[i] ELSE ""
JSON_isdigit(c) == \E k \in 1..10 : Py_digits[k] = c
JSON_ishex(c) ==
    JSON_isdigit(c)
    \/ c \in {"a", "b", "c", "d", "e", "f", "A", "B", "C", "D", "E", "F"}

\* the white space from i on
RECURSIVE JSON_skip(_, _)
JSON_skip(s, i) ==
    IF JSON_at(s, i) \in JSON_white THEN JSON_skip(s, i + 1) ELSE i

\* the digits from i on
RECURSIVE JSON_digitsend(_, _)
JSON_digitsend(s, i) ==
    IF JSON_isdigit(JSON_at(s, i)) THEN JSON_digitsend(s, i + 1) ELSE i

\* the word lit at i
JSON_literal(s, i, lit) ==
    IF i + Len(lit) - 1 <= Len(s) /\ SubSeq(s, i, i + Len(lit) - 1) = lit
    THEN i + Len(lit)
    ELSE 0

\* a number at i: -?(0|[1-9][0-9]*)(\.[0-9]+)?([eE][-+]?[0-9]+)?, of which
\* the fraction and the exponent are read only when they are complete
JSON_fraction(s, k) ==
    IF JSON_at(s, k) = "." /\ JSON_digitsend(s, k + 1) > k + 1
    THEN JSON_digitsend(s, k + 1)
    ELSE k
JSON_exponentfrom(s, k, p) ==
    IF JSON_at(s, k) \in {"e", "E"} /\ JSON_digitsend(s, p) > p
    THEN JSON_digitsend(s, p)
    ELSE k
JSON_exponent(s, k) ==
    JSON_exponentfrom(s, k,
                      IF JSON_at(s, k + 1) \in {"+", "-"} THEN k + 2
                      ELSE k + 1)
JSON_integer(s, m) ==
    IF JSON_at(s, m) = "0" THEN m + 1
    ELSE IF JSON_isdigit(JSON_at(s, m)) THEN JSON_digitsend(s, m)
    ELSE 0
JSON_numberfrom(s, int) ==
    IF int = 0 THEN 0 ELSE JSON_exponent(s, JSON_fraction(s, int))
JSON_number(s, i) ==
    JSON_numberfrom(s, JSON_integer(s, IF JSON_at(s, i) = "-" THEN i + 1
                                       ELSE i))

\* a string literal whose opening quote is before i: no control character,
\* and after a backslash one of "\/bfnrt or u and four hex digits
RECURSIVE JSON_stringend(_, _)
JSON_stringend(s, i) ==
    IF i > Len(s) THEN 0
    ELSE IF s[i] = "\"" THEN i + 1
    ELSE IF s[i] = "\\"
    THEN IF JSON_at(s, i + 1) \in {"\"", "\\", "/", "b", "f", "n", "r", "t"}
         THEN JSON_stringend(s, i + 2)
         ELSE IF /\ JSON_at(s, i + 1) = "u"
                 /\ \A k \in 2..5 : JSON_ishex(JSON_at(s, i + k))
         THEN JSON_stringend(s, i + 6)
         ELSE 0
    ELSE IF s[i] \in {"\t", "\n", "\r", "\f"} THEN 0
    ELSE JSON_stringend(s, i + 1)

\* the words that are values
JSON_words ==
    << <<"n", "u", "l", "l">>, <<"t", "r", "u", "e">>,
       <<"f", "a", "l", "s", "e">>, <<"N", "a", "N">>,
       <<"I", "n", "f", "i", "n", "i", "t", "y">>,
       <<"-", "I", "n", "f", "i", "n", "i", "t", "y">> >>
JSON_word(s, i) ==
    IF \E k \in 1..Len(JSON_words) : JSON_literal(s, i, JSON_words[k]) # 0
    THEN i + Len(JSON_words[CHOOSE k \in 1..Len(JSON_words) :
                                JSON_literal(s, i, JSON_words[k]) # 0])
    ELSE 0

\* a value at i; the elements of an array and the members of an object
\* from i on, up to the closing bracket
RECURSIVE JSON_value(_, _)
RECURSIVE JSON_elements(_, _)
RECURSIVE JSON_members(_, _)
JSON_elementsnext(s, j) ==
    IF JSON_at(s, j) = "," THEN JSON_elements(s, JSON_skip(s, j + 1))
    ELSE IF JSON_at(s, j) = "]" THEN j + 1
    ELSE 0
JSON_elementsafter(s, e) ==
    IF e = 0 THEN 0 ELSE JSON_elementsnext(s, JSON_skip(s, e))
JSON_elements(s, i) == JSON_elementsafter(s, JSON_value(s, i))
JSON_membersnext(s, j) ==
    IF JSON_at(s, j) = "," THEN JSON_members(s, JSON_skip(s, j + 1))
    ELSE IF JSON_at(s, j) = "}" THEN j + 1
    ELSE 0
JSON_membervalueat(s, e) ==
    IF e = 0 THEN 0 ELSE JSON_membersnext(s, JSON_skip(s, e))
JSON_memberafterkey(s, j) ==
    IF JSON_at(s, j) # ":" THEN 0
    ELSE JSON_membervalueat(s, JSON_value(s, JSON_skip(s, j + 1)))
JSON_memberkeyat(s, e) ==
    IF e = 0 THEN 0 ELSE JSON_memberafterkey(s, JSON_skip(s, e))
JSON_members(s, i) ==
    IF JSON_at(s, i) # "\"" THEN 0
    ELSE JSON_memberkeyat(s, JSON_stringend(s, i + 1))
JSON_arrayfrom(s, j) ==
    IF JSON_at(s, j) = "]" THEN j + 1 ELSE JSON_elements(s, j)
JSON_objectfrom(s, j) ==
    IF JSON_at(s, j) = "}" THEN j + 1 ELSE JSON_members(s, j)
JSON_value(s, i) ==
    IF JSON_at(s, i) = "\"" THEN JSON_stringend(s, i + 1)
    ELSE IF JSON_at(s, i) = "[" THEN JSON_arrayfrom(s, JSON_skip(s, i + 1))
    ELSE IF JSON_at(s, i) = "{" THEN JSON_objectfrom(s, JSON_skip(s, i + 1))
    ELSE IF JSON_word(s, i) # 0 THEN JSON_word(s, i)
    ELSE JSON_number(s, i)

\* the text is one value between white space
JSON_validupto(s, e) == e # 0 /\ JSON_skip(s, e) = Len(s) + 1
JSON_valid(s) == JSON_validupto(s, JSON_value(s, JSON_skip(s, 1)))

\* json.loads of the standard library: the value of a text that is one json
\* value, written as that text without its insignificant white space, and
\* ValueError for any other text
pyjson_loads(s) ==
    IF JSON_valid(s) THEN Ok(JSON_compact(s, "value"))
    ELSE Raise("ValueError")

\* str(res) of a result of execute
Result_str(d, res) ==
    IF res.kind = "Null" THEN Ok(<<"n", "u", "l", "l">>)
    ELSE JSONNode_str(d, res.pos)

\* the text of the python list of the values with the texts vs
RECURSIVE JSON_joined(_)
JSON_joined(vs) ==
    IF Len(vs) = 0 THEN <<>>
    ELSE IF Len(vs) = 1 THEN vs[1]
    ELSE vs[1] \o <<",">> \o JSON_joined(Tail(vs))

JSON_list(vs) == <<"[">> \o JSON_joined(vs) \o <<"]">>

\* query, [pyjson.loads(str(item)) for item in res] from the n-th item on,
\* for a result that is no json node: the items of a list are json nodes,
\* those of a str are its characters
RECURSIVE query_values(_, _, _)
query_values(d, res, n) ==
    LET rest(v, r) == IF Raises(r) THEN r ELSE Ok(<<v>> \o r.val)
        value(v) == IF Raises(v) THEN v
                    ELSE rest(v.val, query_values(d, res, n + 1))
        loaded(t) == IF Raises(t) THEN t ELSE value(pyjson_loads(t.val))
    IN  IF n > Len(res.v) THEN Ok(<<>>)
        ELSE loaded(IF res.kind = "list" THEN Result_str(d, res.v[n])
                    ELSE Ok(<<res.v[n]>>))

\* query, the value yielded for one result of execute: a json node or null
\* is loaded from its text, and anything else is iterated, which a number
\* or a boolean does not allow
query_value(d, res) ==
    LET node(t) == IF Raises(t) THEN t ELSE pyjson_loads(t.val)
        list(vs) == IF Raises(vs) THEN vs ELSE Ok(JSON_list(vs.val))
    IN  IF res.kind \in {"Null", "List", "Object", "Primitive"}
        THEN node(Result_str(d, res))
        ELSE IF res.kind \in {"list", "str"}
        THEN list(query_values(d, res, 1))
        ELSE Raise("TypeError")

\* query, the loop over the results of execute
RECURSIVE query_loop(_, _, _)
query_loop(d, stream, n) ==
    LET value(v) ==
            IF Raises(v) THEN Stream(<<>>, v.exc)
            ELSE Stream_chain(Stream(<<v.val>>, "none"),
                              query_loop(d, stream, n + 1))
    IN  IF n > Len(stream.items) THEN Stream(<<>>, stream.exc)
        ELSE value(query_value(d, stream.items[n]))

\* query(src, jq), given the parse tree of jq: Document(src), its root,
\* and the loop over the results of execute
query_results(d, tree, r) ==
    IF Raises(r) THEN Stream(<<>>, r.exc)
    ELSE query_loop(d, Query_execute(d, tree, r.val), 1)

query_loaded(src, tree, l) ==
    IF Raises(l) THEN Stream(<<>>, l.exc)
    ELSE query_results(LoadedDocument(src, l.val.bv, l.val.pos), tree,
                       Document_root(
                           LoadedDocument(src, l.val.bv, l.val.pos)))

query(src, tree) == query_loaded(src, tree, Document_loads(src))

\* the parse trees of the filters
Expression(e) == Tree("expression", <<e>>)
Optional(flag) == IF flag THEN <<Tree("optional", <<>>)>> ELSE <<>>
Identity == Expression(Tree("identity", <<>>))
Iterator(flag) == Expression(Tree("iterator", Optional(flag)))
Indexer(kind, token, flag) ==
    Expression(Tree("indexer", <<Tree(kind, <<token>>)>> \o Optional(flag)))
Bound(name, kind, token) == Tree(name, <<Tree(kind, <<token>>)>>)
Slice(bounds, flag) ==
    Expression(Tree("indexer", <<Tree("slice", bounds)>> \o Optional(flag)))
Property(kind, token, flag) ==
    Tree("property", <<Tree(kind, <<token>>)>> \o Optional(flag))
Properties(props) == Expression(Tree("properties", props))
Concatenator(a, b) == Expression(Tree("concatenator", <<a, b>>))
Primitive(kind, token) ==
    Expression(Tree("primitive", <<Tree(kind, <<token>>)>>))
IndexedBy(e) == Expression(Tree("indexer", <<e>>))
Filter(jq, e) == [jq |-> jq, e |-> e]

\* the filters the queries are made of
Filters ==
    << Filter(".", Identity),
       Filter(".[]", Iterator(FALSE)),
       Filter(".[]?", Iterator(TRUE)),
       Filter(".[0]", Indexer("integer", <<"0">>, FALSE)),
       Filter(".[0]?", Indexer("integer", <<"0">>, TRUE)),
       Filter(".[1]", Indexer("integer", <<"1">>, FALSE)),
       Filter(".[-1]", Indexer("integer", <<"-", "1">>, FALSE)),
       Filter(".[\"a\"]", Indexer("string", <<"\"", "a", "\"">>, FALSE)),
       Filter(".[\"a\"]?", Indexer("string", <<"\"", "a", "\"">>, TRUE)),
       Filter(".[b]", Indexer("cname", <<"b">>, FALSE)),
       Filter(".a", Properties(<<Property("cname", <<"a">>, FALSE)>>)),
       Filter(".a?", Properties(<<Property("cname", <<"a">>, TRUE)>>)),
       Filter(".b", Properties(<<Property("cname", <<"b">>, FALSE)>>)),
       Filter(".[0.5]", Indexer("float", <<"0", ".", "5">>, FALSE)),
       Filter(".[-0.5]", Indexer("float", <<"-", "0", ".", "5">>, FALSE)),
       Filter(".[-1.5]", Indexer("float", <<"-", "1", ".", "5">>, FALSE)),
       Filter(".[1.0]", Indexer("float", <<"1", ".", "0">>, FALSE)),
       Filter(".[1.0]?", Indexer("float", <<"1", ".", "0">>, TRUE)),
       Filter(".[1:]", Slice(<<Bound("start", "integer", <<"1">>)>>, FALSE)),
       Filter(".[:-1]",
              Slice(<<Bound("end", "integer", <<"-", "1">>)>>, FALSE)),
       Filter(".[0.5:]",
              Slice(<<Bound("start", "float", <<"0", ".", "5">>)>>, FALSE)),
       Filter(".[-1.5:1.5]",
              Slice(<<Bound("start", "float", <<"-", "1", ".", "5">>),
                      Bound("end", "float", <<"1", ".", "5">>)>>, FALSE)),
       Filter(".[:-0.5]",
              Slice(<<Bound("end", "float", <<"-", "0", ".", "5">>)>>,
                    FALSE)),
       Filter(".[:1.0]",
              Slice(<<Bound("end", "float", <<"1", ".", "0">>)>>, FALSE)),
       Filter(".[.a]",
              IndexedBy(Properties(<<Property("cname", <<"a">>, FALSE)>>))),
       Filter(".[\"a\", \"b\"]",
              IndexedBy(Concatenator(Primitive("string", <<"\"", "a", "\"">>),
                                     Primitive("string", <<"\"", "b", "\"">>)))),
       Filter(".[.[.a]]",
              IndexedBy(IndexedBy(
                  Properties(<<Property("cname", <<"a">>, FALSE)>>)))),
       Filter(".[true, \"a\"]",
              IndexedBy(Concatenator(Primitive("boolean", <<"t", "r", "u", "e">>),
                                     Primitive("string", <<"\"", "a", "\"">>)))),
       Filter(".[.[0], .a]",
              IndexedBy(Concatenator(
                  Indexer("integer", <<"0">>, FALSE),
                  Properties(<<Property("cname", <<"a">>, FALSE)>>)))) >>

\* the filters that follow '.[] |', and the pairs of filters that follow
\* it in a concatenator
Piped == {2, 3, 4, 5, 8, 9, 11, 12, 25, 26, 27, 28, 29}
Concatenated == {<<1, 1>>, <<1, 5>>, <<5, 12>>, <<12, 1>>, <<4, 1>>}

\* the queries: f, '.[] | f' and '.[] | f, g'
Query(jq, stages) ==
    [jq |-> jq, tree |-> Tree("query", <<Tree("pipeline", stages)>>)]

QuerySingle(f) == Query(f.jq, <<f.e>>)
QueryPiped(f) == Query(".[] | " \o f.jq, <<Iterator(FALSE), f.e>>)
QueryAfterIdentity(f) == Query(". | " \o f.jq, <<Identity, f.e>>)
QueryConcatenated(f, g) ==
    Query(".[] | " \o f.jq \o ", " \o g.jq,
          <<Iterator(FALSE), Concatenator(f.e, g.e)>>)

InitJSON ==
    /\ bits = <<>>
    /\ built = "no"
    /\ text = <<>>
    /\ codec = NoCodec
    /\ root = <<>>
    /\ index = NoIndex
    /\ doc \in {Document(src) : src \in JSONSources}
    /\ call = NoCall

\* the properties nav and idx: _loads when the document is not loaded yet,
\* then the document as it is, or the error of _loads, which leaves _nav
\* and _idx None
Document_loaded(d) ==
    LET load(l) ==
            IF Raises(l) THEN l
            ELSE Ok(LoadedDocument(d.src, l.val.bv, l.val.pos))
    IN  IF d.loaded THEN Ok(d) ELSE load(Document_loads(d.src))

\* loads(src): Document(src).root(), which reads nav and so loads the
\* document unless it is loaded
DocumentRoot ==
    /\ doc.kind = "Document"
    /\ LET rootof(l) ==
               IF Raises(l)
               THEN doc' = doc /\ call' = Call("loads", <<>>, l)
               ELSE /\ doc' = l.val
                    /\ call' = Call("loads", <<>>, Document_root(l.val))
       IN  rootof(Document_loaded(doc))
    /\ UNCHANGED <<bits, built, text, codec, root, index>>

\* doc.nav: the outcome is the bit vector of the navigator's encoding
DocumentNav ==
    /\ doc.kind = "Document"
    /\ LET navof(l) ==
               IF Raises(l)
               THEN doc' = doc /\ call' = Call("nav", <<>>, l)
               ELSE doc' = l.val /\ call' = Call("nav", <<>>, Ok(l.val.bv))
       IN  navof(Document_loaded(doc))
    /\ UNCHANGED <<bits, built, text, codec, root, index>>

\* doc.idx: the outcome is the positions that the index encodes
DocumentIdx ==
    /\ doc.kind = "Document"
    /\ LET idxof(l) ==
               IF Raises(l)
               THEN doc' = doc /\ call' = Call("idx", <<>>, l)
               ELSE /\ doc' = l.val
                    /\ call' = Call("idx", <<>>, Ok(Document_enc(l.val)))
       IN  idxof(Document_loaded(doc))
    /\ UNCHANGED <<bits, built, text, codec, root, index>>

\* list(Query(jq).execute(root)) for the root that loads returned
QueryExecute(q) ==
    /\ call.op = "loads"
    /\ IsOk(call.ret)
    /\ call' = Call("execute", <<q>>, Query_execute(doc, q.tree, call.ret.val))
    /\ UNCHANGED <<bits, built, text, codec, root, index, doc>>

\* list(query(src, jq)) for the source of a document that is not loaded:
\* query makes a Document of its own
QueryQuery(q) ==
    /\ doc.kind = "Document"
    /\ call = NoCall
    /\ call' = Call("query", <<q>>, query(doc.src, q.tree))
    /\ UNCHANGED <<bits, built, text, codec, root, index, doc>>

\* node = tree.Node(doc.nav, pos); doc.render(node) for a loaded document
\* and a position of its tree that opens a node: the outcome is the json
\* node and node.pos after the call
DocumentRender(pos) ==
    /\ call.op = "loads"
    /\ IsOk(call.ret)
    /\ pos < Len(doc.bv)
    /\ doc.bv[pos + 1] = "1"
    /\ LET rendered(r) ==
               IF Raises(r) THEN r
               ELSE Ok([node |-> r.val,
                        handle |-> Document_renderhandle(doc, pos)])
       IN  call' = Call("render", <<pos>>, rendered(Document_render(doc, pos)))
    /\ UNCHANGED <<bits, built, text, codec, root, index, doc>>

\* the queries that execute runs, and those that query runs
Executed ==
    {QuerySingle(Filters[n]) : n \in 1..Len(Filters)}
    \cup {QueryPiped(Filters[n]) : n \in Piped}
    \cup {QueryAfterIdentity(Filters[n]) : n \in 1..Len(Filters)}
    \cup {QueryConcatenated(Filters[p[1]], Filters[p[2]]) : p \in Concatenated}
QueriedPrimitives ==
    {Filter("1", Primitive("integer", <<"1">>)),
     Filter("\"\"", Primitive("string", <<"\"", "\"">>)),
     Filter("\"1a\"", Primitive("string", <<"\"", "1", "a", "\"">>)),
     Filter("\"10\"", Primitive("string", <<"\"", "1", "0", "\"">>))}
Queried ==
    {QuerySingle(Filters[n]) : n \in {1, 2, 4, 19, 20}}
    \cup {QueryPiped(Filters[2])}
    \cup {QuerySingle(f) : f \in QueriedPrimitives}

NextJSON ==
    \/ DocumentRoot
    \/ DocumentNav
    \/ DocumentIdx
    \/ \E q \in Executed : QueryExecute(q)
    \/ \E q \in Queried : QueryQuery(q)
    \/ \E pos \in 0..(Len(doc.bv) - 1) : DocumentRender(pos)

SpecJSON == InitJSON /\ [][NextJSON]_vars

(***************************************************************************)
(* The claims.  Each is stated over the last call and its outcome, with    *)
(* what the claim expects computed here independently of the code.         *)
(***************************************************************************)
\* the number of places of bv where pattern p starts
Occurrences(bv, p) ==
    Cardinality({n \in 1..Len(bv) :
        n + Len(p) - 1 <= Len(bv) /\ SubSeq(bv, n, n + Len(p) - 1) = p})

\* C1: for a pattern p of one or two bits and 1 <= k <= (occurrences of p),
\* select(p, k) returns the smallest index j with rank(p, j) = k, so
\* rank(p, select(p, k)) = k.
C1_SelectIsLeastIndexOfRank ==
    (/\ call.op = "select"
     /\ Len(call.args[1]) \in {1, 2}
     /\ BV_checkpattern(call.args[1])
     /\ call.args[2] >= 1
     /\ call.args[2] <= Occurrences(bits, call.args[1]))
    => /\ IsOk(call.ret)
       /\ BV_rank(bits, call.args[1], call.ret.val) = Ok(call.args[2])
       /\ \A j \in 0..(call.ret.val - 1) :
              BV_rank(bits, call.args[1], j) # Ok(call.args[2])

\* a select of the second occurrence of a two-bit pattern has returned
C1_Witness ==
    /\ call.op = "select"
    /\ Len(call.args[1]) = 2
    /\ call.args[2] = 2
    /\ IsOk(call.ret)

\* C2: in a non-empty BitVector, rank('0', i) + rank('1', i) = i + 1 for
\* every index i in [0, len).
C2_RankZeroPlusRankOne ==
    (/\ call.op = "rank"
     /\ call.args[1] = <<"0">>
     /\ call.args[2] \in 0..(Len(bits) - 1))
    => /\ IsOk(call.ret)
       /\ IsOk(BV_rank(bits, <<"1">>, call.args[2]))
       /\ call.ret.val + BV_rank(bits, <<"1">>, call.args[2]).val
              = call.args[2] + 1

\* rank('0', i) has returned at an index with zeros and ones before it
C2_Witness ==
    /\ call.op = "rank"
    /\ call.args[1] = <<"0">>
    /\ call.args[2] >= 2
    /\ IsOk(call.ret)
    /\ call.ret.val \in 1..call.args[2]

\* the number of bits c among the first n bits of bv
CountBits(bv, c, n) == Cardinality({m \in 1..n : bv[m] = c})

\* non-empty, no prefix with more ')' than '(' and as many '(' as ')'
WellBalanced(bv) ==
    /\ Len(bv) > 0
    /\ \A n \in 1..Len(bv) : CountBits(bv, "1", n) >= CountBits(bv, "0", n)
    /\ CountBits(bv, "1", Len(bv)) = CountBits(bv, "0", Len(bv))

\* C3: constructing a BalancedParentheses succeeds exactly when the bit
\* string is non-empty, every prefix has at least as many '(' as ')' and
\* the total excess is 0; for every other bit string it raises ValueError.
C3_ConstructionValidatesBalance ==
    call.op = "construct"
    => /\ WellBalanced(bits) => built = "ok"
       /\ ~WellBalanced(bits) => built = "ValueError"

\* a string that starts with '(', ends with ')' and has total excess 0 was
\* rejected for a prefix with negative excess
C3_Witness ==
    /\ call.op = "construct"
    /\ built = "ValueError"
    /\ Len(bits) >= 6
    /\ bits[1] = "1"
    /\ bits[Len(bits)] = "0"
    /\ CountBits(bits, "1", Len(bits)) = CountBits(bits, "0", Len(bits))

\* C4: open and close are mutually inverse on matching pairs: for i holding
\* '(', open(close(i)) = i; for j holding ')', close(open(j)) = j; open on
\* '(' and close on ')' raise ValueError.
C4_OpenCloseInverse ==
    /\ (call.op = "close" /\ call.args[1] \in Positions)
       => IF BP_is(bits, call.args[1], "(")
          THEN /\ IsOk(call.ret)
               /\ BP_open(bits, call.ret.val) = Ok(call.args[1])
          ELSE call.ret = Raise("ValueError")
    /\ (call.op = "open" /\ call.args[1] \in Positions)
       => IF BP_is(bits, call.args[1], ")")
          THEN /\ IsOk(call.ret)
               /\ BP_close(bits, call.ret.val) = Ok(call.args[1])
          ELSE call.ret = Raise("ValueError")

\* open has returned on the ')' of a pair that encloses other pairs
C4_Witness ==
    /\ call.op = "open"
    /\ call.args[1] \in Positions
    /\ IsOk(call.ret)
    /\ call.ret.val > 0
    /\ call.args[1] >= call.ret.val + 3

\* C5: for every node n and 0 <= k < n.degree(), n.child(k).parent() is n,
\* and the preorder rank of n is smaller than that of n.child(k).
C5_ChildParent ==
    (/\ call.op = "child"
     /\ call.args[2] >= 0
     /\ call.args[2] < Node_degree(bits, call.args[1]).val)
    => /\ IsOk(call.ret)
       /\ Node_parent(bits, call.ret.val) = Ok(call.args[1])
       /\ Nav_rank(bits, call.args[1]).val < Nav_rank(bits, call.ret.val).val

\* a node other than the root has returned a child other than its first
C5_Witness ==
    /\ call.op = "child"
    /\ call.args[1] > 0
    /\ call.args[2] >= 1
    /\ IsOk(call.ret)

\* the ')' matching the '(' at position p (from 0), by counting: the first
\* position after p up to which as many ')' as '(' follow p
MatchOf(bv, p) ==
    SetMin({q \in (p + 1)..(Len(bv) - 1) :
        Cardinality({m \in p..q : bv[m + 1] = "1"})
            = Cardinality({m \in p..q : bv[m + 1] = "0"})})

\* C6: over a constructed BalancedParentheses with N = len(navigator)
\* nodes, the sum of degree() over all N nodes is N - 1.
C6_SumOfDegrees ==
    call.op = "degrees"
    => /\ IsOk(call.ret)
       /\ call.ret.val = Nav_len(bits) - 1

\* the encoding is one tree: the '(' at 0 is closed by the last ')'
SingleRooted(bv) == MatchOf(bv, 0) = Len(bv) - 1

\* the top-level pairs of the encoding: the roots of the forest it encodes
NumRoots(bv) == Cardinality({n \in 1..Len(bv) :
                    CountBits(bv, "1", n) = CountBits(bv, "0", n)})

\* C6 on the encodings of one tree, and what holds of every encoding:
\* _balanced also accepts a forest such as ()(), where each top-level pair
\* is a node that is nobody's child
C6_SumOfDegreesOfOneTree ==
    (call.op = "degrees" /\ SingleRooted(bits)) => C6_SumOfDegrees
C6_SumOfDegreesOfForest ==
    call.op = "degrees"
    => /\ IsOk(call.ret)
       /\ call.ret.val = Nav_len(bits) - NumRoots(bits)

\* the node at a is an ancestor of the node at d, or is that node
IsAncestorOrSelf(bv, a, d) == a <= d /\ d < MatchOf(bv, a)

\* C7: a.lca(b) is an ancestor of both a and b (a node counts as its own
\* ancestor), no proper descendant of it is an ancestor of both, and
\* a.lca(b) and b.lca(a) are the same node.
C7_LowestCommonAncestor ==
    call.op = "lca"
    => /\ IsOk(call.ret)
       /\ call.ret.val \in NodePositions
       /\ IsAncestorOrSelf(bits, call.ret.val, call.args[1])
       /\ IsAncestorOrSelf(bits, call.ret.val, call.args[2])
       /\ \A d \in NodePositions :
              (d # call.ret.val /\ IsAncestorOrSelf(bits, call.ret.val, d))
              => ~(/\ IsAncestorOrSelf(bits, d, call.args[1])
                   /\ IsAncestorOrSelf(bits, d, call.args[2]))
       /\ Node_lca(bits, call.args[2], call.args[1]) = call.ret

\* C7 on the encodings of one tree: in a forest two nodes of different
\* trees have no common ancestor
C7_LowestCommonAncestorInOneTree ==
    (call.op = "lca" /\ SingleRooted(bits)) => C7_LowestCommonAncestor

\* C8: for every index i with 0 <= i < len(text), a WaveletTree built from
\* the text returns the original symbol on access: tree[i] == text[i].
C8_AccessReturnsSymbol ==
    (call.op = "getitem" /\ call.args[1] \in 0..(Len(text) - 1))
    => call.ret = Ok(text[call.args[1] + 1])

\* the number of positions j <= i (from 0) of txt that hold c
CountSymbol(txt, c, i) == Cardinality({m \in 1..(i + 1) : txt[m] = c})

\* C9: rank(c, i) is the number of positions j <= i with text[j] = c for
\* 0 <= i < len(text) (0 for a symbol that does not occur up to i); an
\* index outside [0, len(text)) raises IndexError.
C9_RankCountsOccurrences ==
    call.op = "rank"
    => IF call.args[2] \in 0..(Len(text) - 1)
       THEN call.ret = Ok(CountSymbol(text, call.args[1], call.args[2]))
       ELSE call.ret = Raise("IndexError")

\* rank has returned a count between 1 and i at the last index i
C9_Witness ==
    /\ call.op = "rank"
    /\ call.args[2] = Len(text) - 1
    /\ IsOk(call.ret)
    /\ call.ret.val >= 1
    /\ call.ret.val <= call.args[2]

\* the position (from 0) of the k-th occurrence of c in txt
KthOccurrence(txt, c, k) ==
    (CHOOSE m \in 1..Len(txt) :
        txt[m] = c /\ CountSymbol(txt, c, m - 1) = k) - 1

\* C10: select(c, k) returns the position of the k-th occurrence of c for
\* 1 <= k <= (occurrences of c in text); for k <= 0, for k greater than
\* the number of occurrences, and for an absent symbol it raises ValueError.
C10_SelectKthOccurrence ==
    call.op = "select"
    => IF /\ call.args[2] >= 1
          /\ call.args[2] <= CountSymbol(text, call.args[1], Len(text) - 1)
       THEN call.ret = Ok(KthOccurrence(text, call.args[1], call.args[2]))
       ELSE call.ret = Raise("ValueError")

\* select has returned the second occurrence of a symbol, which another
\* symbol precedes
C10_Witness ==
    /\ call.op = "select"
    /\ call.args[2] = 2
    /\ IsOk(call.ret)
    /\ call.ret.val = 2

\* the symbols a codec encodes: every character for the fixed code, and the
\* symbols of the text for a code built from a text
Support(cdc, txt) ==
    IF cdc.kind = "ASCIICodec" THEN Symbols
    ELSE {txt[n] : n \in 1..Len(txt)}

\* the codewords of a codec: every string of 7 bits for the fixed code, and
\* the codes of the symbols of the text for a code built from a text
Codewords(cdc, txt) ==
    IF cdc.kind = "ASCIICodec" THEN {c \in Codes : Len(c) = ASCIIWidth}
    ELSE {Codec_encode(cdc, s).val : s \in Support(cdc, txt)}

\* the round trip of C11
C11_RoundTripInSupport ==
    (call.op = "roundtrip" /\ call.args[1] \in Support(codec, text))
    => call.ret = Ok(call.args[1])

\* the errors of C11 of a Huffman or Hu-Tucker codec
C11_ErrorsOfTableCodecs ==
    codec.kind \in {"HuffmanCodec", "HuTuckerCodec"}
    => /\ (call.op = "encode" /\ call.args[1] \notin Support(codec, text))
          => call.ret = Raise("ValueError")
       /\ (call.op = "decode" /\ call.args[1] \notin Codewords(codec, text))
          => call.ret = Raise("ValueError")

\* C11: for each codec (fixed 7-bit, Huffman, Hu-Tucker) and every symbol s
\* of its support, decode(encode(s)) = s; encoding a symbol outside the
\* support of a Huffman or Hu-Tucker codec raises ValueError, and decoding
\* a bit string that is not a codeword raises ValueError.
C11_CodecRoundTrip ==
    /\ C11_RoundTripInSupport
    /\ C11_ErrorsOfTableCodecs
    /\ (call.op = "decode" /\ call.args[1] \notin Codewords(codec, text))
       => call.ret = Raise("ValueError")

\* a is a proper prefix of b or is b
IsPrefix(a, b) == Len(a) <= Len(b) /\ SubSeq(b, 1, Len(a)) = a

\* a < b for two Python strings of bits
LexLess(a, b) ==
    \/ (IsPrefix(a, b) /\ a # b)
    \/ \E k \in 1..Min2(Len(a), Len(b)) :
           /\ SubSeq(a, 1, k - 1) = SubSeq(b, 1, k - 1)
           /\ a[k] = "0"
           /\ b[k] = "1"

\* C12: for every non-empty training text, the Hu-Tucker codec assigns
\* every distinct symbol a codeword such that no codeword is a prefix of
\* another and, for symbols a < b, encode(a) is lexicographically smaller
\* than encode(b).
C12_HuTuckerOrderPreserving ==
    /\ (call.op = "HuTuckerCodec" /\ text # <<>>)
       => codec.kind = "HuTuckerCodec"
    /\ (codec.kind = "HuTuckerCodec" /\ text # <<>>)
       => /\ DOMAIN codec.codes = {text[n] : n \in 1..Len(text)}
          /\ \A a \in DOMAIN codec.codes, b \in DOMAIN codec.codes :
                 /\ a # b => ~IsPrefix(codec.codes[a], codec.codes[b])
                 /\ Py_ord(a) < Py_ord(b)
                    => LexLess(codec.codes[a], codec.codes[b])

\* a Hu-Tucker codec was built for a text where the least frequent symbols
\* are the first and the last of the alphabet, which a Huffman code would
\* merge, and its codewords differ in length
C12_Witness ==
    /\ codec.kind = "HuTuckerCodec"
    /\ {" ", "a", "~"} \subseteq DOMAIN codec.codes
    /\ SymCount(text, "a") > SymCount(text, " ")
    /\ SymCount(text, "a") > SymCount(text, "~")
    /\ \E a \in DOMAIN codec.codes, b \in DOMAIN codec.codes :
           Len(codec.codes[a]) # Len(codec.codes[b])

\* the positions (from 0) of txt where pattern p starts
Matches(txt, p) ==
    {i \in 0..(Len(txt) - 1) :
        i + Len(p) <= Len(txt) /\ SubSeq(txt, i + 1, i + Len(p)) = p}

\* the set of the elements of a sequence
Range(s) == {s[n] : n \in 1..Len(s)}

\* C13: for every text T and every non-empty pattern P, SA.build(T) reports
\* count(P) equal to the number of positions i with T[i:i+|P|] = P, and
\* indexes(P) yields exactly those positions.
C13_SuffixArrayCountAndIndexes ==
    (index.kind = "SA" /\ call.op \in {"count", "indexes"}
        /\ call.args[1] # <<>>)
    => IF call.op = "count"
       THEN call.ret = Ok(Cardinality(Matches(text, call.args[1])))
       ELSE /\ IsOk(call.ret)
            /\ Range(call.ret.val) = Matches(text, call.args[1])
            /\ Len(call.ret.val) = Cardinality(Matches(text, call.args[1]))

\* indexes has yielded the two places where a pattern of two characters
\* occurs, the later place first
C13_Witness ==
    /\ index.kind = "SA"
    /\ call.op = "indexes"
    /\ Len(call.args[1]) = 2
    /\ IsOk(call.ret)
    /\ Len(call.ret.val) = 2
    /\ call.ret.val[1] > call.ret.val[2]

\* C14: for every text T and every non-empty pattern P, CSA.build(T)
\* reports count(P) equal to the number of positions i with
\* T[i:i+|P|] = P, the value SA.build(T).count(P) reports.
C14_CompressedSuffixArrayCount ==
    (index.kind = "CSA" /\ call.op = "count" /\ call.args[1] # <<>>)
    => /\ call.ret = Ok(Cardinality(Matches(text, call.args[1])))
       /\ call.ret = SA_count(SA_build(text), call.args[1])

\* what holds of CSA.count: it is right for every pattern of one character
C14_CountOfOneCharacter ==
    (index.kind = "CSA" /\ call.op = "count" /\ Len(call.args[1]) = 1)
    => call.ret = Ok(Cardinality(Matches(text, call.args[1])))

\* C15: for the empty pattern, SA.build(T).count('') and
\* CSA.build(T).count('') return the same value for every text T, namely
\* len(T) + 1.
C15_EmptyPatternCount ==
    (call.op = "count" /\ call.args[1] = <<>>)
    => /\ call.ret = Ok(Len(text) + 1)
       /\ SA_count(SA_build(text), <<>>) = CSA_count(CSA_build(text), <<>>)

\* what holds of the empty pattern: the CSA counts len(T) + 1 and the SA
\* one more
C15_EmptyPatternCountOfEach ==
    (call.op = "count" /\ call.args[1] = <<>>)
    => call.ret = Ok(Len(text) + (IF index.kind = "SA" THEN 2 ELSE 1))

(***************************************************************************)
(* Claims about the json Document and its queries.  What a json text       *)
(* means is read off the text itself: its elements and members are the     *)
(* pieces between the commas of its outermost brackets.                    *)
(***************************************************************************)
\* the pieces of s between its commas that are in no bracket and no string
RECURSIVE JSON_split(_, _, _, _)
JSON_split(s, depth, mode, piece) ==
    IF Len(s) = 0 THEN <<piece>>
    ELSE LET c == Head(s)
         IN  IF mode = "escape"
             THEN JSON_split(Tail(s), depth, "string", Append(piece, c))
             ELSE IF mode = "string"
             THEN JSON_split(Tail(s), depth,
                             IF c = "\"" THEN "value"
                             ELSE IF c = "\\" THEN "escape" ELSE "string",
                             Append(piece, c))
             ELSE IF c = "," /\ depth = 0
             THEN <<piece>> \o JSON_split(Tail(s), 0, "value", <<>>)
             ELSE JSON_split(Tail(s),
                             IF c \in {"[", "{"} THEN depth + 1
                             ELSE IF c \in {"]", "}"} THEN depth - 1
                             ELSE depth,
                             IF c = "\"" THEN "string" ELSE "value",
                             Append(piece, c))

\* the elements of an array text, or the members of an object text
JSON_pieces(s) ==
    LET inner == Py_inner(JSON_compact(s, "value"))
    IN  IF inner = <<>> THEN <<>> ELSE JSON_split(inner, 0, "value", <<>>)

\* the key of a member, which is a string without escapes, and its value
JSON_memberkey(m) ==
    SubSeq(m, 2, (CHOOSE n \in 2..Len(m) : m[n] = "\"" /\ \A k \in 2..(n - 1) : m[k] # "\"") - 1)
JSON_membervalue(m) == SubSeq(m, Len(JSON_memberkey(m)) + 4, Len(m))

JSON_isarray(s) == Len(JSON_compact(s, "value")) > 0 /\ JSON_compact(s, "value")[1] = "["
JSON_isobject(s) == Len(JSON_compact(s, "value")) > 0 /\ JSON_compact(s, "value")[1] = "{"

\* the values of an array or of an object, in the order of the text
JSON_values(s) ==
    IF JSON_isarray(s) THEN JSON_pieces(s)
    ELSE [n \in 1..Len(JSON_pieces(s)) |-> JSON_membervalue(JSON_pieces(s)[n])]

JSON_keys(s) ==
    [n \in 1..Len(JSON_pieces(s)) |-> JSON_memberkey(JSON_pieces(s)[n])]

\* the text of each result of execute, without insignificant white space
ResultTexts(d, items) ==
    [n \in 1..Len(items) |-> JSON_compact(Result_str(d, items[n]).val, "value")]

\* the filter of the one stage of a query, or of its second stage
Stage(q, n) == q.tree.children[1].children[n].children[1]
Stages(q) == Len(q.tree.children[1].children)

\* C16: for every valid json document src (an object, an array or a
\* primitive at top level, with any string contents), query(src, '.')
\* yields exactly one result, the value a reference json parser returns
\* for src.
C16_IdentityQuery ==
    (call.op = "query" /\ call.args[1].jq = ".")
    => call.ret = Stream(<<pyjson_loads(doc.src).val>>, "none")

\* what holds of the identity query: it yields the document when the top
\* level is an array or an object and no string holds an escaped quote
C16_IdentityOfContainers ==
    (/\ call.op = "query" /\ call.args[1].jq = "."
     /\ JSON_isarray(doc.src) \/ JSON_isobject(doc.src)
     /\ \A n \in 1..Len(doc.src) : doc.src[n] # "\\")
    => call.ret = Stream(<<pyjson_loads(doc.src).val>>, "none")

\* C17: '.[]' applied to a List node yields exactly the elements of the
\* array in document order (nothing for an empty array), applied to an
\* Object node one value per entry in document order, and applied to a
\* non-container it raises TypeError.
C17_Iterator ==
    /\ (call.op = "execute" /\ call.args[1].jq = ".[]")
       => /\ call.ret.exc = "none"
          /\ ResultTexts(doc, call.ret.items) = JSON_values(doc.src)
    /\ (/\ call.op = "execute" /\ call.args[1].jq = ".[] | .[]"
        /\ JSON_values(doc.src) # <<>>
        /\ ~JSON_isarray(JSON_values(doc.src)[1])
        /\ ~JSON_isobject(JSON_values(doc.src)[1]))
       => call.ret = Stream(<<>>, "TypeError")

\* what holds of '.[]': the claim, for every node but an empty array, when
\* no string of the document holds an escaped quote
C17_IteratorOfNonEmptyArrays ==
    (/\ call.op = "execute" /\ call.args[1].jq = ".[]"
     /\ ~(JSON_isarray(doc.src) /\ JSON_values(doc.src) = <<>>)
     /\ \A n \in 1..Len(doc.src) : doc.src[n] # "\\")
    => /\ call.ret.exc = "none"
       /\ ResultTexts(doc, call.ret.items) = JSON_values(doc.src)

\* the integer of an indexer '.[k]'
IndexerInteger(q) == Py_int(Stage(q, 1).children[1].children[1])

\* C18: the indexer never raises for a well-typed index that addresses
\* nothing: an Object indexed with a string key it does not contain
\* yields Null, and a List of any length, the empty list included,
\* indexed with an integer outside its element range yields Null.
C18_IndexerOfNothing ==
    (/\ call.op = "execute" /\ Stages(call.args[1]) = 1
     /\ Stage(call.args[1], 1).data = "indexer"
     /\ Stage(call.args[1], 1).children[1].data # "expression")
    => LET e == Stage(call.args[1], 1)
           item == Query_mkindex(e.children[1])
           n == Len(JSON_values(doc.src))
       IN  /\ (/\ JSON_isobject(doc.src) /\ item.kind = "str"
               /\ \A k \in 1..n : JSON_keys(doc.src)[k] # item.v)
              => call.ret = Stream(<<Null>>, "none")
           /\ (/\ JSON_isarray(doc.src) /\ item.kind = "int"
               /\ (item.v >= n \/ item.v < 0 - n))
              => call.ret = Stream(<<Null>>, "none")

\* what holds of the indexer: the claim, for every list but the empty one,
\* when no string of the document holds an escaped quote
C18_IndexerOfNothingInNonEmpty ==
    (/\ call.op = "execute" /\ Stages(call.args[1]) = 1
     /\ Stage(call.args[1], 1).data = "indexer"
     /\ Stage(call.args[1], 1).children[1].data # "expression"
     /\ ~(JSON_isarray(doc.src) /\ JSON_values(doc.src) = <<>>)
     /\ \A n \in 1..Len(doc.src) : doc.src[n] # "\\")
    => LET e == Stage(call.args[1], 1)
           item == Query_mkindex(e.children[1])
           n == Len(JSON_values(doc.src))
       IN  /\ (/\ JSON_isobject(doc.src) /\ item.kind = "str"
               /\ \A k \in 1..n : JSON_keys(doc.src)[k] # item.v)
              => call.ret = Stream(<<Null>>, "none")
           /\ (/\ JSON_isarray(doc.src) /\ item.kind = "int"
               /\ (item.v >= n \/ item.v < 0 - n))
              => call.ret = Stream(<<Null>>, "none")

\* the input stream of the second stage of a query '.[] | f': the results
\* of its first stage over the root of the document
SecondStageInput ==
    Query_evaluate(doc, call.args[1].tree.children[1].children[1],
                   Stream(<<Document_root(doc).val>>, "none"))

\* C19: for a concatenator 'a, b' over an input stream n1..nk the output
\* is the whole result sequence of a over n1..nk followed by the whole
\* result sequence of b over n1..nk: the results are grouped by
\* subexpression, not by input node.
C19_ConcatenatorGroupsBySubexpression ==
    (/\ call.op = "execute" /\ Stages(call.args[1]) = 2
     /\ Stage(call.args[1], 2).data = "concatenator")
    => LET e == Stage(call.args[1], 2)
           a == Query_evaluate(doc, e.children[1], SecondStageInput)
           b == Query_evaluate(doc, e.children[2], SecondStageInput)
       IN  /\ a.exc = "none" => /\ call.ret.items = a.items \o b.items
                                /\ call.ret.exc = b.exc
           /\ a.exc # "none" => call.ret = a

\* C19 happens: both subexpressions yield results for two input nodes, and
\* a result of the second node for a precedes a result of the first for b
C19_Witness ==
    /\ call.op = "execute" /\ Stages(call.args[1]) = 2
    /\ Stage(call.args[1], 2).data = "concatenator"
    /\ LET e == Stage(call.args[1], 2)
           a == Query_evaluate(doc, e.children[1], SecondStageInput)
           b == Query_evaluate(doc, e.children[2], SecondStageInput)
       IN  /\ Len(SecondStageInput.items) >= 2
           /\ a.exc = "none" /\ b.exc = "none"
           /\ Len(a.items) >= 2 /\ Len(b.items) >= 2
           /\ a.items # b.items
           /\ Len(call.ret.items) = Len(a.items) + Len(b.items)

\* a node has the wrong shape for a filter: no Object for a property or a
\* string index, no List for an integer index, no container for '.[]'
WrongShape(e, node) ==
    CASE e.data = "iterator" -> node.kind \notin {"List", "Object"}
      [] e.data = "properties" -> node.kind # "Object"
      [] e.data = "indexer" ->
             IF Query_mkindex(e.children[1]).kind = "str"
             THEN node.kind # "Object"
             ELSE node.kind # "List"

\* the filter has the '?' flag
HasFlag(t) == \E n \in 1..Len(t.children) : t.children[n].data = "optional"
Flagged(e) ==
    IF e.data = "properties" THEN HasFlag(e.children[1]) ELSE HasFlag(e)

\* the nodes of items that precede the first one of the wrong shape
RECURSIVE BeforeWrongShape(_, _)
BeforeWrongShape(e, items) ==
    IF Len(items) = 0 \/ WrongShape(e, Head(items)) THEN <<>>
    ELSE <<Head(items)>> \o BeforeWrongShape(e, Tail(items))

\* the nodes of items that have the right shape
RECURSIVE RightShape(_, _)
RightShape(e, items) ==
    IF Len(items) = 0 THEN <<>>
    ELSE (IF WrongShape(e, Head(items)) THEN <<>> ELSE <<Head(items)>>)
         \o RightShape(e, Tail(items))

\* the last stage of a query of one or two stages, and its input stream
LastStage(q) == q.tree.children[1].children[Stages(q)]
LastStageInput ==
    IF Stages(call.args[1]) = 1
    THEN Stream(<<Document_root(doc).val>>, "none")
    ELSE SecondStageInput

\* the filters whose results come node by node: all but the concatenator
\* and the indexer with an expression for its index
NodeByNode(e) ==
    /\ e.children[1].data # "concatenator"
    /\ ~(/\ e.children[1].data = "indexer"
         /\ e.children[1].children[1].data = "expression")

\* the index is a float, or a slice with a float for a bound: mkint keeps
\* an integral float literal a float, which no node accepts as an index
FloatIndex(e) ==
    /\ e.data = "indexer"
    /\ e.children[1].data # "expression"
    /\ LET x == Query_mkindex(e.children[1])
       IN  \/ x.kind = "float"
           \/ /\ x.kind = "slice"
              /\ "float" \in {x.v.start.kind, x.v.stop.kind}

\* C20: for the properties, indexer and iterator filters an input node of
\* the wrong shape raises TypeError when the filter has no '?' flag, after
\* the results of the nodes before it; with the '?' flag the node yields
\* nothing and no error, and evaluation continues with the next nodes.
C20_WrongShapeAndOptionalFlag ==
    (/\ call.op = "execute"
     /\ LastStage(call.args[1]).children[1].data
           \in {"properties", "indexer", "iterator"}
     /\ ~FloatIndex(LastStage(call.args[1]).children[1])
     /\ NodeByNode(LastStage(call.args[1]))
     /\ LastStageInput.exc = "none")
    => LET stage == LastStage(call.args[1])
           e == stage.children[1]
           items == LastStageInput.items
           before == BeforeWrongShape(e, items)
           right == RightShape(e, items)
           \* a property and an index yield one result for a node
           one == e.data # "iterator"
       IN  IF Flagged(e)
           THEN /\ call.ret = Query_evaluate(doc, stage, Stream(right, "none"))
                /\ call.ret.exc = "none"
                /\ one => Len(call.ret.items) = Len(right)
           ELSE IF before # items
           THEN /\ call.ret.items
                   = Query_evaluate(doc, stage, Stream(before, "none")).items
                /\ call.ret.exc = "TypeError"
                /\ one => Len(call.ret.items) = Len(before)
           ELSE /\ call.ret.exc = "none"
                /\ one => Len(call.ret.items) = Len(items)

\* C20 happens: a flagged filter skips a node of the wrong shape and yields
\* the result of a node that follows it
C20_Witness ==
    /\ call.op = "execute" /\ Stages(call.args[1]) = 2
    /\ Stage(call.args[1], 2).data \in {"properties", "indexer", "iterator"}
    /\ Flagged(Stage(call.args[1], 2))
    /\ SecondStageInput.exc = "none"
    /\ LET e == Stage(call.args[1], 2)
           items == SecondStageInput.items
       IN  /\ \E i, j \in 1..Len(items) :
                 i < j /\ WrongShape(e, items[i]) /\ ~WrongShape(e, items[j])
           /\ Len(call.ret.items) >= 1
           /\ call.ret.exc = "none"

\* ceiling(x) of the number num / den
Ceiling(x) == 0 - ((0 - x.num) \div x.den)

\* a float literal that is not integral
NonIntegral(e) == e.data = "float" /\ ~Py_isinteger(Py_float(e.children[1]))

\* the numbers an index is written with: the index itself, or the bounds
\* of a slice
NumbersOf(e) ==
    IF e.data = "slice"
    THEN {e.children[n].children[1] : n \in 1..Len(e.children)}
    ELSE IF e.data \in {"integer", "float"} THEN {e}
    ELSE {}

\* the index with ceiling(x) in the place of each non-integral float x
CeilingOfNumber(e) ==
    IF NonIntegral(e) THEN PyValue("int", Ceiling(Py_float(e.children[1])))
    ELSE Query_mkint(e)
CeilingOfBound(e, name) ==
    LET named == {n \in 1..Len(e.children) : e.children[n].data = name}
    IN  IF named = {} THEN PyValue("NoneType", 0)
        ELSE CeilingOfNumber(e.children[SetMax(named)].children[1])
CeilingIndex(e) ==
    IF e.data = "slice"
    THEN PyValue("slice", [start |-> CeilingOfBound(e, "start"),
                           stop |-> CeilingOfBound(e, "end")])
    ELSE CeilingOfNumber(e)

\* the results of the indexer e of a one-stage query run with the item
IndexerWith(e, item) ==
    Query_indexer(doc, e, item,
                  Stream(<<Document_root(doc).val>>, "none"), 1)

\* C21: when the index of an indexer, or a bound of its slice, is written
\* as a non-integral float literal x, of either sign, the indexer yields
\* what it yields for the integer index ceiling(x).
C21_FloatIndexIsCeiling ==
    (/\ call.op = "execute" /\ Stages(call.args[1]) = 1
     /\ Stage(call.args[1], 1).data = "indexer"
     /\ \E x \in NumbersOf(Stage(call.args[1], 1).children[1]) :
            NonIntegral(x))
    => LET e == Stage(call.args[1], 1)
       IN  call.ret = IndexerWith(e, CeilingIndex(e.children[1]))

\* what holds of the indexer: the claim, for the float literals above zero
C21_PositiveFloatIndexIsCeiling ==
    (/\ call.op = "execute" /\ Stages(call.args[1]) = 1
     /\ Stage(call.args[1], 1).data = "indexer"
     /\ \E x \in NumbersOf(Stage(call.args[1], 1).children[1]) :
            NonIntegral(x)
     /\ \A x \in NumbersOf(Stage(call.args[1], 1).children[1]) :
            NonIntegral(x) => Py_float(x.children[1]).num > 0)
    => LET e == Stage(call.args[1], 1)
       IN  call.ret = IndexerWith(e, CeilingIndex(e.children[1]))

\* and below zero the integer used is ceiling(x) + 1
C21_NegativeFloatIndexIsCeilingPlusOne ==
    (/\ call.op = "execute" /\ Stages(call.args[1]) = 1
     /\ Stage(call.args[1], 1).data = "indexer"
     /\ NonIntegral(Stage(call.args[1], 1).children[1])
     /\ Py_float(Stage(call.args[1], 1).children[1].children[1]).num < 0)
    => LET e == Stage(call.args[1], 1)
           x == Py_float(e.children[1].children[1])
       IN  call.ret = IndexerWith(e, PyValue("int", Ceiling(x) + 1))

\* the results of the filter e over the nodes from the k-th on, taken one
\* node at a time and in order, up to the first error
RECURSIVE UpToFirstError(_, _, _)
UpToFirstError(e, nodes, k) ==
    IF k > Len(nodes.items) THEN Stream(<<>>, nodes.exc)
    ELSE LET r == Query_evaluate(doc, e, Stream(<<nodes.items[k]>>, "none"))
             rest == UpToFirstError(e, nodes, k + 1)
         IN  IF r.exc # "none" THEN r
             ELSE Stream(r.items \o rest.items, rest.exc)

\* C22: query evaluation is pull-driven and stops at the first error: when
\* the evaluation of a stage over its input stream raises while producing
\* the j-th result, the consumer has got the j - 1 results that precede it
\* in output order, then the error, and no result after it.
C22_FirstErrorEndsTheStream ==
    (/\ call.op = "execute" /\ Stages(call.args[1]) = 2
     /\ NodeByNode(LastStage(call.args[1])))
    => call.ret = UpToFirstError(LastStage(call.args[1]), SecondStageInput, 1)

\* C22 happens: the last stage raises at its second input node, after the
\* results of the first were delivered
C22_Witness ==
    /\ call.op = "execute" /\ Stages(call.args[1]) = 2
    /\ NodeByNode(LastStage(call.args[1]))
    /\ Len(SecondStageInput.items) >= 2
    /\ Query_evaluate(doc, LastStage(call.args[1]),
                      Stream(<<SecondStageInput.items[1]>>, "none")).exc
       = "none"
    /\ Query_evaluate(doc, LastStage(call.args[1]),
                      Stream(<<SecondStageInput.items[2]>>, "none")).exc
       = "TypeError"
    /\ Len(call.ret.items) >= 1
    /\ call.ret.exc = "TypeError"

(***************************************************************************)
(* C23: the tree queries out of range.                                     *)
(***************************************************************************)
\* the calls of C23 whose argument is out of the range the claim names
ChildOutOfRange ==
    /\ call.op = "child"
    /\ \/ call.args[2] < 0
       \/ call.args[2] >= Node_degree(bits, call.args[1]).val

AncestorOutOfRange ==
    /\ call.op = "ancestor"
    /\ \/ call.args[2] < 0
       \/ call.args[2] >= Node_depth(bits, call.args[1]).val

LevelOutOfRange ==
    /\ call.op \in {"levelleftmost", "levelrightmost"}
    /\ \/ call.args[1] < 1
       \/ call.args[1] > Node_height(bits, 0).val + 1

\* C23: out-of-range tree queries return none and raise no error: child(k)
\* with k outside [0, degree), ancestor(d) with d < 0 or d >= depth, and
\* levelleftmost(d) / levelrightmost(d) with d outside [1, root.height + 1].
C23_OutOfRangeQueriesReturnNone ==
    (ChildOutOfRange \/ AncestorOutOfRange \/ LevelOutOfRange)
    => call.ret = None

\* what holds of child: out of range it raises IndexError
C23_ChildOutOfRangeRaises ==
    ChildOutOfRange => call.ret = Raise("IndexError")

\* and the claim holds of the other three queries
C23_AncestorAndLevelsOutOfRangeAreNone ==
    (AncestorOutOfRange \/ LevelOutOfRange) => call.ret = None

(***************************************************************************)
(* C24: the operations of a BitVector and its content.                     *)
(***************************************************************************)
\* C24: a BitVector is immutable after construction: over any sequence of
\* calls to the operations it offers, its length and the bit at every index
\* stay what they were when it was constructed.
C24_BitVectorIsImmutable == [][bits' = bits]_vars

\* the consequence the claim draws: a BalancedParentheses that validated
\* the vector stays balanced over the calls to the vector's operations
C24_ValidatedStaysBalanced ==
    [][BP_init(bits) = "ok" => BP_init(bits') = "ok"]_vars

\* what holds: rank and select leave the vector as it was, append adds
\* one bit at the end, and extend adds the bits it is given at the end
C24_OnlyAppendChangesTheVector ==
    [][/\ call'.op \in {"rank", "select"} => bits' = bits
       /\ call'.op = "append" => /\ Len(bits') = Len(bits) + 1
                                 /\ SubSeq(bits', 1, Len(bits)) = bits
       /\ call'.op = "extend" => bits' = bits \o call'.args[1]]_vars

(***************************************************************************)
(* C25: the length of a WaveletTree under each codec.                      *)
(***************************************************************************)
\* C25: for every text and every codec able to encode it (fixed 7-bit, or
\* Huffman / Hu-Tucker built from that text), the root bit vector of the
\* WaveletTree has length len(text), so len(tree) = len(text).
C25_RootVectorHasTheLengthOfTheText ==
    call.op = "WaveletTree"
    => /\ Len(root[<<>>]) = Len(text)
       /\ call.ret = Ok(Len(text))

\* the number of distinct symbols of the text
Alphabet == {text[n] : n \in 1..Len(text)}

\* what holds: the claim for the fixed codec, and for the two built from
\* the text when it has two symbols or more; a text of one symbol has the
\* empty code for it, and its tree is empty whatever the length of the text
C25_RootVectorLengthOfEach ==
    call.op = "WaveletTree"
    => call.ret = IF codec.kind = "ASCIICodec" \/ Cardinality(Alphabet) # 1
                  THEN Ok(Len(text)) ELSE Ok(0)

(***************************************************************************)
(* C26: bwdsearch and enclose.                                             *)
(***************************************************************************)
\* the excess up to position i (from 0) by counting, 0 at i = -1
ExcessAt(bv, i) == CountBits(bv, "1", i + 1) - CountBits(bv, "0", i + 1)

\* the positions before i whose excess is that of i plus d
Before(bv, i, d) ==
    {j \in 0..(i - 1) : ExcessAt(bv, j) = ExcessAt(bv, i) + d}

\* the '(' of the pair that has a parenthesis at i
PairAt(bv, i) ==
    IF bv[i + 1] = "1" THEN i
    ELSE CHOOSE q \in 0..(i - 1) : bv[q + 1] = "1" /\ MatchOf(bv, q) = i

\* the '(' of the pairs that strictly enclose the pair at i
Enclosing(bv, i) ==
    {q \in 0..(PairAt(bv, i) - 1) :
        bv[q + 1] = "1" /\ MatchOf(bv, q) > MatchOf(bv, PairAt(bv, i))}

\* bwdsearch(i, d) returns the largest j < i with excess(j) = excess(i) + d;
\* when there is none it returns -1 for a target excess of 0 and raises
\* ValueError otherwise
BwdsearchIsTheLargestBefore ==
    (call.op = "bwdsearch" /\ call.args[1] \in Positions)
    => call.ret =
           IF Before(bits, call.args[1], call.args[2]) # {}
           THEN Ok(SetMax(Before(bits, call.args[1], call.args[2])))
           ELSE IF ExcessAt(bits, call.args[1]) + call.args[2] = 0
           THEN Ok(-1)
           ELSE Raise("ValueError")

\* enclose(i) is the opening position of the innermost pair that strictly
\* encloses the pair at i
EncloseIsTheInnermostEnclosing ==
    (call.op = "enclose" /\ call.args[1] \in Positions \ {0, Len(bits) - 1})
    => /\ Enclosing(bits, call.args[1]) # {}
       /\ call.ret = Ok(SetMax(Enclosing(bits, call.args[1])))

\* C26: for every constructed BalancedParentheses, position i and offset d,
\* bwdsearch(i, d) returns the largest j < i with excess(j) = excess(i) + d;
\* when no such j in [0, i) exists it returns -1 if the target excess is 0
\* and raises ValueError otherwise; as a consequence enclose(i) is the
\* opening position of the innermost pair strictly enclosing the pair at i,
\* for every i other than 0 and len - 1.
C26_BwdsearchAndEnclose ==
    BwdsearchIsTheLargestBefore /\ EncloseIsTheInnermostEnclosing

\* what holds: the claim about bwdsearch on every encoding
C26_Bwdsearch == BwdsearchIsTheLargestBefore

\* and the claim about enclose on the encodings of one tree; in a forest
\* such as ()() no pair encloses a top-level pair, and enclose raises
\* ValueError on it
C26_EncloseInOneTree ==
    (call.op = "enclose" /\ SingleRooted(bits))
    => EncloseIsTheInnermostEnclosing
C26_EncloseInForest ==
    (call.op = "enclose" /\ call.args[1] \in Positions \ {0, Len(bits) - 1}
     /\ Enclosing(bits, call.args[1]) = {})
    => call.ret = Raise("ValueError")

(***************************************************************************)
(* C27, C28: the bits that _loads writes for the characters of the source. *)
(***************************************************************************)
StructuralChars == {"[", "]", "{", "}", ":", ","}

\* the positions (from 0) of the structural characters of src that lie
\* outside the string literals, from position i on; inside a literal the
\* character after a backslash is escaped and does not end it
RECURSIVE StructuralPositions(_, _, _)
StructuralPositions(src, i, mode) ==
    IF i >= Len(src) THEN <<>>
    ELSE IF mode = "escape" THEN StructuralPositions(src, i + 1, "string")
    ELSE IF mode = "string"
    THEN StructuralPositions(src, i + 1,
                             IF src[i + 1] = "\"" THEN "value"
                             ELSE IF src[i + 1] = "\\" THEN "escape"
                             ELSE "string")
    ELSE (IF src[i + 1] \in StructuralChars THEN <<i>> ELSE <<>>)
         \o StructuralPositions(src, i + 1,
                                IF src[i + 1] = "\"" THEN "string"
                                ELSE "value")

\* the code of a structural character
TokenCode(c) ==
    IF c \in {"[", "{"} THEN <<"1", "1">>
    ELSE IF c \in {"]", "}"} THEN <<"0", "0">>
    ELSE <<"0", "1">>

\* the codes of the characters of src at the positions, one after the other
RECURSIVE TokenCodes(_, _)
TokenCodes(src, positions) ==
    IF positions = <<>> THEN <<>>
    ELSE TokenCode(src[Head(positions) + 1])
             \o TokenCodes(src, Tail(positions))

\* the source has a backslash
HasEscape(src) == \E n \in 1..Len(src) : src[n] = "\\"

\* C27: after a Document has loaded successfully, pos has one bit per
\* source character; the number of '1' bits in pos is M = len(bv) / 2; and
\* for every i < M, src[ef[i]] is the i-th structural character lying
\* outside string literals, in document order, with bv[2i..2i+2] equal to
\* its code ('11' for [ and {, '00' for ] and }, '01' for : and ,).
C27_TokenPositionsAndCodes ==
    doc.loaded
    => /\ Len(doc.pos) = Len(doc.src)
       /\ 2 * CountBits(doc.pos, "1", Len(doc.pos)) = Len(doc.bv)
       /\ Document_enc(doc) = StructuralPositions(doc.src, 0, "value")
       /\ doc.bv = TokenCodes(doc.src, Document_enc(doc))

\* what holds: the claim for the documents without a backslash, and for
\* every loaded document all of it but that the tokens are the structural
\* characters outside the string literals
C27_TokenPositionsWithoutEscapes ==
    (doc.loaded /\ ~HasEscape(doc.src)) => C27_TokenPositionsAndCodes
C27_PositionsAndCodesAgree ==
    doc.loaded
    => /\ Len(doc.pos) = Len(doc.src)
       /\ 2 * CountBits(doc.pos, "1", Len(doc.pos)) = Len(doc.bv)
       /\ \A n \in 1..Len(Document_enc(doc)) :
              doc.src[Document_enc(doc)[n] + 1] \in StructuralChars
       /\ doc.bv = TokenCodes(doc.src, Document_enc(doc))

\* C28: during tokenization a string literal contributes no bits to bv
\* from its opening quote through its closing quote, with backslash escapes
\* honoured: a quote preceded by a backslash does not end the string, so
\* structural characters that follow an escaped quote inside the string
\* emit nothing to bv.
C28_StringLiteralsEmitNothing ==
    call.op = "loads"
    => LET t == Document_loadsloop(doc.src, 0, <<>>, <<>>)
       IN  IsOk(t)
           => t.val.bv = TokenCodes(doc.src,
                                    StructuralPositions(doc.src, 0, "value"))

\* what holds: the claim for the documents without a backslash
C28_StringLiteralsWithoutEscapes ==
    ~HasEscape(doc.src) => C28_StringLiteralsEmitNothing

\* and a string literal with an escaped quote in it ends at that quote: the
\* source is tokenized as if every quote opened or closed a literal
RECURSIVE QuoteToggled(_, _, _)
QuoteToggled(src, i, inside) ==
    IF i >= Len(src) THEN <<>>
    ELSE (IF ~inside /\ src[i + 1] \in StructuralChars THEN <<i>> ELSE <<>>)
         \o QuoteToggled(src, i + 1,
                         IF src[i + 1] = "\"" THEN ~inside ELSE inside)
C28_EveryQuoteEndsTheLiteral ==
    call.op = "loads"
    => LET t == Document_loadsloop(doc.src, 0, <<>>, <<>>)
       IN  IsOk(t) => t.val.bv = TokenCodes(doc.src,
                                            QuoteToggled(doc.src, 0, FALSE))

(***************************************************************************)
(* C29: a query after the identity stage.                                  *)
(***************************************************************************)
\* the query is '. | q'
AfterIdentity(q) == Stages(q) = 2 /\ Stage(q, 1).data = "identity"

\* the results of q alone, for the query '. | q' of the last call
ResultsAlone ==
    Query_execute(doc,
                  Tree("query",
                       <<Tree("pipeline", <<LastStage(call.args[1])>>)>>),
                  Document_root(doc).val)

\* the index of the indexer is an expression
ExpressionIndex(e) ==
    e.data = "indexer" /\ e.children[1].data = "expression"

\* C29: prefixing a query with the identity stage does not change its
\* results: for every filter q and every document, '. | q' yields the same
\* result sequence as q alone; in particular an indexer whose index is a
\* sub-expression or a comma list (such as .[.bar] or .["a", "b"]) yields
\* the same results as a later pipeline stage as it does as the first stage.
C29_IdentityPrefixChangesNothing ==
    (call.op = "execute" /\ AfterIdentity(call.args[1]))
    => call.ret = ResultsAlone

\* what holds: the claim for every filter but the indexer whose index is an
\* expression
C29_IdentityPrefixOfOtherFilters ==
    (/\ call.op = "execute" /\ AfterIdentity(call.args[1])
     /\ ~ExpressionIndex(Stage(call.args[1], 2)))
    => call.ret = ResultsAlone

\* the index is a comma list that starts with a literal, which does not
\* read the stream
LiteralFirst(e) ==
    /\ e.children[1].children[1].data = "concatenator"
    /\ e.children[1].children[1].children[1].children[1].data = "primitive"

\* and of that indexer after the identity: when the comma list starts with
\* a literal the results are those of its first item alone; an index that
\* reads the stream takes the root from the generator that the loop over
\* the nodes reads, and leaves the loop no node and the indexer no result
C29_IdentityPrefixOfExpressionIndex ==
    (/\ call.op = "execute" /\ AfterIdentity(call.args[1])
     /\ ExpressionIndex(Stage(call.args[1], 2)))
    => IF LiteralFirst(Stage(call.args[1], 2))
       THEN /\ call.ret.items = IF ResultsAlone.items = <<>> THEN <<>>
                              ELSE <<ResultsAlone.items[1]>>
            /\ ResultsAlone.items = <<>> => call.ret.exc = ResultsAlone.exc
       ELSE call.ret.items = <<>>

\* C30: Document.render(node) leaves the tree node handle it is given
\* unchanged: node.pos has the same value after the call as before it,
\* whether the node renders as a List, an Object or a Primitive.
C30_RenderLeavesTheHandle ==
    (call.op = "render" /\ IsOk(call.ret))
    => call.ret.val.handle = call.args[1]

\* what holds: a node that renders as a Primitive, and a container at an
\* even position, keep their position
C30_PrimitiveAndEvenKeepThePosition ==
    (/\ call.op = "render" /\ IsOk(call.ret)
     /\ (call.ret.val.node.kind = "Primitive" \/ call.args[1] % 2 = 0))
    => call.ret.val.handle = call.args[1]

\* and a container at an odd position is moved to the even position after
\* it, which is the position of the json node that render returns
C30_OddContainerMovesToEven ==
    (/\ call.op = "render" /\ IsOk(call.ret)
     /\ call.ret.val.node.kind \in {"List", "Object"}
     /\ call.args[1] % 2 = 1)
    => /\ call.ret.val.handle = call.args[1] + 1
       /\ call.ret.val.node.pos = call.ret.val.handle

====
